---- MODULE Spec2Model ----
(***************************************************************************)
(* A model of s3-browser: the S3Path data model (paths.py), the variable   *)
(* tokeniser (tokeniser.py), the memoising S3 client (client.py) and the   *)
(* navigation commands of the command line (cli.py).                       *)
(*                                                                         *)
(* Python strings are modelled as sequences of one-character strings, so   *)
(* that parsing, normalisation and formatting are computed, not assumed.   *)
(***************************************************************************)
EXTENDS Integers, Sequences, FiniteSets, TLC

(***************************************************************************)
(* Bounds of the model                                                     *)
(***************************************************************************)
\* longest tokeniser input explored character by character
MaxTokLen == 4
\* most segments of a path string explored by the path specification
MaxSegs == 3
\* most segments of a path whose canonical form is given to normalise_path
MaxDepth == 2
\* the longest token list given to render directly
MaxTokens == 3
\* the longest buffer given to _split_cmd character by character
MaxBufLen == 4

(***************************************************************************)
(* Python values                                                           *)
(***************************************************************************)
\* Python's None, distinct from every string of the model
None == <<"<None>">>

\* truth value of an optional string: None and "" are falsy
\* F applied to the value of e, which is computed once
Once(F(_), e) == CHOOSE r \in {F(v) : v \in {e}} : TRUE

Truthy(s) == s # None /\ s # <<>>

\* `s or ""`
OrEmpty(s) == IF Truthy(s) THEN s ELSE <<>>

\* the protocol prefix "s3://"
S3Proto == <<"s", "3", ":", "/", "/">>

\* str.startswith
StartsWith(s, p) == Len(s) >= Len(p) /\ SubSeq(s, 1, Len(p)) = p

\* str.endswith
EndsWith(s, p) == Len(s) >= Len(p) /\ SubSeq(s, Len(s) - Len(p) + 1, Len(s)) = p

\* s[n:]
Drop(s, n) == SubSeq(s, n + 1, Len(s))

\* s.split(c): the pieces between the occurrences of c (always at least one)
RECURSIVE SplitAcc(_, _, _, _)
SplitAcc(s, c, done, cur) ==
    IF s = <<>> THEN Append(done, cur)
    ELSE IF Head(s) = c THEN SplitAcc(Tail(s), c, Append(done, cur), <<>>)
    ELSE SplitAcc(Tail(s), c, done, Append(cur, Head(s)))

Split(s, c) == SplitAcc(s, c, <<>>, <<>>)

\* c.join(parts)
RECURSIVE Join(_, _)
Join(parts, c) ==
    IF parts = <<>> THEN <<>>
    ELSE IF Len(parts) = 1 THEN parts[1]
    ELSE parts[1] \o <<c>> \o Join(Tail(parts), c)

\* s.lstrip(c)
RECURSIVE LStrip(_, _)
LStrip(s, c) == IF s # <<>> /\ Head(s) = c THEN LStrip(Tail(s), c) ELSE s

\* s.rstrip(c)
RECURSIVE RStrip(_, _)
RStrip(s, c) ==
    IF s # <<>> /\ s[Len(s)] = c THEN RStrip(SubSeq(s, 1, Len(s) - 1), c) ELSE s

\* s.strip(c)
Strip(s, c) == RStrip(LStrip(s, c), c)

\* s.rfind(c) + 1: the 1-based index of the last c, 0 when there is none
RECURSIVE RFind1(_, _)
RFind1(s, c) ==
    IF s = <<>> THEN 0
    ELSE IF s[Len(s)] = c THEN Len(s)
    ELSE RFind1(SubSeq(s, 1, Len(s) - 1), c)

(***************************************************************************)
(* posixpath                                                               *)
(***************************************************************************)
\* the component loop of posixpath.normpath
RECURSIVE NormComps(_, _, _)
NormComps(comps, abs, acc) ==
    IF comps = <<>> THEN acc
    ELSE LET comp == Head(comps) IN
         IF comp = <<>> \/ comp = <<".">> THEN NormComps(Tail(comps), abs, acc)
         ELSE IF \/ comp # <<".", ".">>
                 \/ (~abs /\ acc = <<>>)
                 \/ (acc # <<>> /\ acc[Len(acc)] = <<".", ".">>)
              THEN NormComps(Tail(comps), abs, Append(acc, comp))
         ELSE IF acc # <<>>
              THEN NormComps(Tail(comps), abs, SubSeq(acc, 1, Len(acc) - 1))
         ELSE NormComps(Tail(comps), abs, acc)

\* os.path.normpath: collapse "", "." and "..", keep one leading slash, or
\* two when the path starts with exactly two
normpath(path) ==
    IF path = <<>> THEN <<".">>
    ELSE LET abs      == StartsWith(path, <<"/">>)
             slashes  == IF abs /\ StartsWith(path, <<"/", "/">>)
                               /\ ~StartsWith(path, <<"/", "/", "/">>)
                         THEN <<"/", "/">>
                         ELSE IF abs THEN <<"/">> ELSE <<>>
             res      == slashes \o Join(NormComps(Split(path, "/"), abs, <<>>), "/")
         IN  IF res = <<>> THEN <<".">> ELSE res

\* os.path.dirname
dirname(p) ==
    LET head == SubSeq(p, 1, RFind1(p, "/"))
    IN  IF head # <<>> /\ LStrip(head, "/") # <<>> THEN RStrip(head, "/") ELSE head

\* os.path.join(a, b)
pathjoin(a, b) ==
    IF StartsWith(b, <<"/">>) THEN b
    ELSE IF a = <<>> \/ EndsWith(a, <<"/">>) THEN a \o b
    ELSE a \o <<"/">> \o b

\* The component loop of posixpath.realpath on an absolute path.  links is
\* the local filesystem's table of symbolic links: it maps the name of a link
\* in the root directory to the components of its (link-free) target.
RECURSIVE RealComps(_, _, _)
RealComps(comps, links, acc) ==
    IF comps = <<>> THEN acc
    ELSE LET name == Head(comps) IN
         IF name = <<>> \/ name = <<".">> THEN RealComps(Tail(comps), links, acc)
         ELSE IF name = <<".", ".">>
              THEN RealComps(Tail(comps), links,
                             IF acc = <<>> THEN acc ELSE SubSeq(acc, 1, Len(acc) - 1))
         ELSE IF acc = <<>> /\ name \in DOMAIN links
              THEN RealComps(Tail(comps), links, links[name])
         ELSE RealComps(Tail(comps), links, Append(acc, name))

\* os.path.realpath of an absolute path
realpath(p, links) == <<"/">> \o Join(RealComps(Split(p, "/"), links, <<>>), "/")

(***************************************************************************)
(* tokeniser.py                                                            *)
(***************************************************************************)
\* RawString(value)
RawString(v) == [kind |-> "RawString", text |-> v]

\* Token(name): a reference to the variable called name
Token(n) == [kind |-> "Token", text |-> n]

\* the characters of the model that are neither letters nor digits
Punctuation == {"$", "{", "}", "\\", "/", ".", ":", "~", " ", "_", "-", "'", "\""}

\* str.isalnum(c), on the characters of the model
isalnum(c) == c \notin Punctuation

\* the local variables of tokenise before the first character
TokStart ==
    [acc |-> <<>>, curr |-> <<>>, is_var |-> FALSE, is_braced |-> FALSE,
     is_escaped |-> FALSE]

\* the loop iteration with every escape consumed: the backslash is dropped
\* before any character
TokStep_ConsumeEscape(st, c) ==
    IF ~st.is_var THEN
        IF c = "\\" /\ ~st.is_escaped THEN [st EXCEPT !.is_escaped = TRUE]
        ELSE IF c = "$" /\ ~st.is_escaped THEN
            [st EXCEPT !.is_var = TRUE,
                       !.acc = IF st.curr # <<>> THEN Append(st.acc, RawString(st.curr))
                               ELSE st.acc,
                       !.curr = <<>>]
        ELSE
            [st EXCEPT !.is_escaped = FALSE,
                       !.curr = st.curr \o <<c>>]
    ELSE IF c = "{" /\ st.curr = <<>> THEN [st EXCEPT !.is_braced = TRUE]
    ELSE IF st.is_braced THEN
        IF c = "}" THEN
            [st EXCEPT !.acc = Append(st.acc, Token(st.curr)),
                       !.is_var = FALSE, !.is_braced = FALSE, !.curr = <<>>]
        ELSE [st EXCEPT !.curr = Append(st.curr, c)]
    ELSE IF ~isalnum(c) /\ c # "_" THEN
        [st EXCEPT !.acc = Append(st.acc, Token(st.curr)),
                   !.is_braced = FALSE,
                   !.is_var = (c = "$"),
                   !.is_escaped = IF c = "\\" THEN TRUE ELSE st.is_escaped,
                   !.curr = IF c = "\\" \/ c = "$" THEN <<>> ELSE <<c>>]
    ELSE [st EXCEPT !.curr = Append(st.curr, c)]

\* one iteration of the loop of tokenise, on character c
TokStep(st, c) ==
    IF ~st.is_var THEN
        IF c = "\\" /\ ~st.is_escaped THEN [st EXCEPT !.is_escaped = TRUE]
        ELSE IF c = "$" /\ ~st.is_escaped THEN
            [st EXCEPT !.is_var = TRUE,
                       !.acc = IF st.curr # <<>> THEN Append(st.acc, RawString(st.curr))
                               ELSE st.acc,
                       !.curr = <<>>]
        ELSE
            [st EXCEPT !.is_escaped = FALSE,
                       !.curr = (IF st.is_escaped /\ c # "$" THEN Append(st.curr, "\\")
                                 ELSE st.curr) \o <<c>>]
    ELSE IF c = "{" /\ st.curr = <<>> THEN [st EXCEPT !.is_braced = TRUE]
    ELSE IF st.is_braced THEN
        IF c = "}" THEN
            [st EXCEPT !.acc = Append(st.acc, Token(st.curr)),
                       !.is_var = FALSE, !.is_braced = FALSE, !.curr = <<>>]
        ELSE [st EXCEPT !.curr = Append(st.curr, c)]
    ELSE IF ~isalnum(c) /\ c # "_" THEN
        [st EXCEPT !.acc = Append(st.acc, Token(st.curr)),
                   !.is_braced = FALSE,
                   !.is_var = (c = "$"),
                   !.is_escaped = IF c = "\\" THEN TRUE ELSE st.is_escaped,
                   !.curr = IF c = "\\" \/ c = "$" THEN <<>> ELSE <<c>>]
    ELSE [st EXCEPT !.curr = Append(st.curr, c)]

\* the loop of tokenise over the characters of s
RECURSIVE TokLoop(_, _)
TokLoop(st, s) == IF s = <<>> THEN st ELSE TokLoop(TokStep(st, Head(s)), Tail(s))

\* the final-token handling of tokenise: raise on an unclosed brace, else
\* flush what is left
TokFinish_Flush(st) ==
    [raised |-> "",
     value  |-> IF st.curr # <<>>
                THEN Append(st.acc, IF st.is_var THEN Token(st.curr)
                                    ELSE RawString(st.curr))
                ELSE st.acc]

TokFinish(st) ==
    IF st.is_var /\ st.is_braced
    THEN [raised |-> "TokeniserException", value |-> None]
    ELSE [raised |-> "",
          value  |-> IF st.curr # <<>>
                     THEN Append(st.acc, IF st.is_var THEN Token(st.curr)
                                         ELSE RawString(st.curr))
                     ELSE st.acc]

\* tokenise(s): the token list, or the exception raised
tokenise(s) == TokFinish(TokLoop(TokStart, s))

\* render(tokens, context): the rendered string, or the exception raised
RECURSIVE RenderLoop(_, _, _)
RenderLoop(tokens, context, acc) ==
    IF tokens = <<>> THEN [raised |-> "", value |-> acc]
    ELSE LET t == Head(tokens) IN
         IF t.kind = "RawString" /\ t.text # <<>>
         THEN RenderLoop(Tail(tokens), context, acc \o t.text)
         ELSE IF t.kind = "RawString"
         THEN [raised |-> "AttributeError", value |-> None]
         ELSE IF t.text \notin DOMAIN context
         THEN [raised |-> "TokeniserException", value |-> None]
         ELSE RenderLoop(Tail(tokens), context, acc \o context[t.text])

\* render with a default: an unknown name renders as the empty string
render_Default(tokens, context) ==
    LET names == {tokens[i].text : i \in {j \in 1..Len(tokens) : tokens[j].kind = "Token"}}
    IN  RenderLoop(tokens,
                   [n \in names \cup DOMAIN context |->
                       IF n \in DOMAIN context THEN context[n] ELSE <<>>],
                   <<>>)

render(tokens, context) == RenderLoop(tokens, context, <<>>)

(***************************************************************************)
(* paths.py                                                                *)
(***************************************************************************)
\* S3Path(bucket, path): the constructor resolves the key against the local
\* filesystem with os.path.realpath
S3Path(bucket, path, links) ==
    [bucket |-> bucket,
     path   |-> IF Truthy(path) THEN Drop(realpath(<<"/">> \o path, links), 1)
                ELSE None]

\* S3Path.from_path
from_path_KeepProto(raw, links) ==
    LET p1 == Strip(normpath(raw), "/")
    IN  IF p1 = <<>> \/ p1 = <<".">> THEN S3Path(None, None, links)
        ELSE LET comp == Split(p1, "/")
             IN  S3Path(comp[1], Join(Tail(comp), "/"), links)

from_path(raw, links) ==
    LET p0 == IF StartsWith(raw, S3Proto) THEN Drop(raw, 5) ELSE raw
        p1 == Strip(normpath(p0), "/")
    IN  IF p1 = <<>> \/ p1 = <<".">> THEN S3Path(None, None, links)
        ELSE LET comp == Split(p1, "/")
             IN  S3Path(comp[1], Join(Tail(comp), "/"), links)

\* S3Path.canonical
canonical(p) ==
    IF ~Truthy(p.bucket) THEN S3Proto
    ELSE S3Proto \o p.bucket \o <<"/">> \o OrEmpty(p.path)

\* S3Path.path_string, which is also str(path)
path_string(p) ==
    IF ~Truthy(p.bucket) THEN <<"/">>
    ELSE <<"/">> \o p.bucket \o <<"/">> \o OrEmpty(p.path)

\* S3Path.__eq__
PathEq(p, q) == canonical(p) = canonical(q)

(***************************************************************************)
(* cli.py: path normalisation                                              *)
(***************************************************************************)
\* Cli.normalise_path after the variables were rendered
NormaliseRendered_NoJoin(current_path, rendered, links) ==
    LET p == IF StartsWith(rendered, S3Proto) THEN Drop(rendered, 5) ELSE rendered
    IN  IF p = <<"~">> \/ p = <<"~", "/">>
        THEN S3Path(current_path.bucket, None, links)
        ELSE from_path(p, links)

NormaliseRendered(current_path, rendered, links) ==
    LET p == IF StartsWith(rendered, S3Proto) THEN Drop(rendered, 5) ELSE rendered
    IN  IF p = <<"~">> \/ p = <<"~", "/">>
        THEN S3Path(current_path.bucket, None, links)
        ELSE from_path(pathjoin(<<"/">> \o path_string(current_path), p), links)

\* Cli.normalise_path(path): the S3Path, or the exception raised by the
\* tokeniser; context maps each bookmark's name to its path
normalise_path_ClampAtBucket(current_path, context, path, links) ==
    LET toks == tokenise(path)
        text == IF toks.raised = "" THEN render(toks.value, context) ELSE toks
        full == NormaliseRendered(current_path, text.value, links)
    IN  IF text.raised # "" THEN text
        ELSE [raised |-> "",
              value  |-> IF full.bucket = None
                         THEN S3Path(current_path.bucket, None, links)
                         ELSE full]

normalise_path(current_path, context, path, links) ==
    LET toks == tokenise(path)
        text == IF toks.raised = "" THEN render(toks.value, context) ELSE toks
    IN  IF text.raised # "" THEN text
        ELSE [raised |-> "",
              value  |-> NormaliseRendered(current_path, text.value, links)]

(***************************************************************************)
(* The S3 backend, as boto presents it to client.py                        *)
(***************************************************************************)
\* A listing entry: S3Bucket(name), S3Prefix(name) or S3Key(name).  The
\* last-modified time of a key is presentation only and is left out.
S3Bucket(b) == [kind |-> "S3Bucket", name |-> b]
S3Prefix(p) == [kind |-> "S3Prefix", name |-> p]
S3Key(k) == [kind |-> "S3Key", name |-> k]

\* S3Base.is_key
is_key(r) == r.kind = "S3Key"

\* s up to and including the first c at or after position from + 1
RECURSIVE UpToNext(_, _, _)
UpToNext(s, c, from) ==
    IF from >= Len(s) THEN s
    ELSE IF s[from + 1] = c THEN SubSeq(s, 1, from + 1)
    ELSE UpToNext(s, c, from + 1)

\* list_buckets(): the names of the buckets of the store
ListBuckets(store) == DOMAIN store

\* list_objects(Bucket, Prefix, Delimiter = "/"), all pages together: the
\* common prefixes and the keys directly under Prefix.  An unknown bucket
\* holds nothing.
CommonPrefixes(store, bucket, prefix) ==
    IF bucket \notin DOMAIN store THEN {}
    ELSE {UpToNext(k, "/", Len(prefix)) :
            k \in {k \in store[bucket] :
                     /\ StartsWith(k, prefix)
                     /\ RFind1(Drop(k, Len(prefix)), "/") # 0}}

Contents(store, bucket, prefix) ==
    IF bucket \notin DOMAIN store THEN {}
    ELSE {k \in store[bucket] :
            StartsWith(k, prefix) /\ RFind1(Drop(k, Len(prefix)), "/") = 0}

(***************************************************************************)
(* client.py                                                               *)
(***************************************************************************)
\* the key under which S3Client.ls memoises a listing
CacheKey(path, path_fragment) == <<canonical(path), path_fragment>>

\* _fetch() of S3Client.ls: the listing the backend gives
Fetch(store, path, path_fragment) ==
    IF ~Truthy(path.bucket) \/ (~Truthy(path.path) /\ path_fragment)
    THEN {S3Bucket(b) : b \in {b \in ListBuckets(store) :
                                 ~Truthy(path.bucket) \/ StartsWith(b, path.bucket)}}
    ELSE LET search_path == IF ~path_fragment
                            THEN (IF Truthy(path.path) THEN path.path \o <<"/">>
                                  ELSE <<>>)
                            ELSE OrEmpty(path.path)
             search_len  == RFind1(search_path, "/")
         IN  {S3Prefix(Drop(r, search_len)) :
                r \in CommonPrefixes(store, path.bucket, search_path)}
             \cup
             {S3Key(Drop(r, search_len)) :
                r \in Contents(store, path.bucket, search_path) \ {search_path}}

\* What a call of S3Client.ls does to the cache.  fail says whether the
\* backend call, if one is made, raises.
ls_CacheEmpty(path_cache, store, path, path_fragment, fail) ==
    LET cache_key == CacheKey(path, path_fragment)
        res       == Fetch(store, path, path_fragment)
    IN  IF cache_key \in DOMAIN path_cache
        THEN [raised |-> "", value |-> path_cache[cache_key], fetched |-> FALSE,
              cache |-> path_cache]
        ELSE IF fail
        THEN [raised |-> "ClientError", value |-> None, fetched |-> TRUE,
              cache |-> path_cache]
        ELSE [raised |-> "", value |-> res, fetched |-> TRUE,
              cache |-> (cache_key :> res) @@ path_cache]

ls_SharedModes(path_cache, store, path, path_fragment, fail) ==
    LET cache_key == CacheKey(path, path_fragment)
        other_key == CacheKey(path, ~path_fragment)
        res       == Fetch(store, path, path_fragment)
    IN  IF cache_key \in DOMAIN path_cache
        THEN [raised |-> "", value |-> path_cache[cache_key], fetched |-> FALSE,
              cache |-> path_cache]
        ELSE IF other_key \in DOMAIN path_cache
        THEN [raised |-> "", value |-> path_cache[other_key], fetched |-> FALSE,
              cache |-> path_cache]
        ELSE IF fail
        THEN [raised |-> "ClientError", value |-> None, fetched |-> TRUE,
              cache |-> path_cache]
        ELSE [raised |-> "", value |-> res, fetched |-> TRUE,
              cache |-> IF res # {} THEN (cache_key :> res) @@ path_cache
                        ELSE path_cache]

\* S3Client.ls(path, path_fragment)
ls(path_cache, store, path, path_fragment, fail) ==
    LET cache_key == CacheKey(path, path_fragment)
        res       == Fetch(store, path, path_fragment)
    IN  IF cache_key \in DOMAIN path_cache
        THEN [raised |-> "", value |-> path_cache[cache_key], fetched |-> FALSE,
              cache |-> path_cache]
        ELSE IF fail
        THEN [raised |-> "ClientError", value |-> None, fetched |-> TRUE,
              cache |-> path_cache]
        ELSE [raised |-> "", value |-> res, fetched |-> TRUE,
              cache |-> IF res # {} THEN (cache_key :> res) @@ path_cache
                        ELSE path_cache]

\* The while loop of S3Client.invalidate_cache from a key p: the keys the
\* walk visits, the first being p itself and the last the fixed point of
\* os.path.dirname
RECURSIVE WalkKeys(_)
WalkKeys(p) == IF dirname(p) = p THEN <<p>> ELSE <<p>> \o WalkKeys(dirname(p))

\* the cache keys S3Client.invalidate_cache collects for path
InvalidatedKeys_OneMode(path) ==
    LET walk == WalkKeys(path.path)
    IN  {CacheKey([path EXCEPT !.path = walk[i]], FALSE) : i \in 1..Len(walk)}

InvalidatedKeys(path) ==
    LET walk == WalkKeys(path.path)
    IN  {CacheKey([path EXCEPT !.path = walk[i]], f) :
            i \in 1..Len(walk), f \in BOOLEAN}

\* Restriction of a cache to the keys outside gone
Without(path_cache, gone) == [k \in DOMAIN path_cache \ gone |-> path_cache[k]]

\* S3Client.invalidate_cache(path).  os.path.dirname(None) raises before
\* anything is removed.  The walk assigns to path.path, so the caller's
\* object ends with the last key visited: arg is the object afterwards.
invalidate_cache(path_cache, path) ==
    IF path.path = None
    THEN [raised |-> "TypeError", cache |-> path_cache, arg |-> path]
    ELSE [raised |-> "",
          cache  |-> Without(path_cache, InvalidatedKeys(path)),
          arg    |-> [path EXCEPT !.path = WalkKeys(path.path)[Len(WalkKeys(path.path))]]]

\* The backend validates its parameters and knows its buckets: a call on an
\* object raises when the bucket or the key is missing, when the bucket is
\* unknown, or when the service fails (fail)
ObjectCallRaises(store, path, fail) ==
    IF ~Truthy(path.bucket) \/ ~Truthy(path.path) THEN "ParamValidationError"
    ELSE IF fail \/ path.bucket \notin DOMAIN store THEN "ClientError"
    ELSE ""

\* S3Client.rm(path): delete_object, then invalidate_cache
rm_NoInvalidate(path_cache, store, path, fail) ==
    LET err == ObjectCallRaises(store, path, fail)
    IN  IF err # ""
        THEN [raised |-> err, cache |-> path_cache, store |-> store, arg |-> path]
        ELSE [raised |-> "", cache |-> path_cache, arg |-> path,
              store  |-> [store EXCEPT ![path.bucket] = @ \ {path.path}]]

rm(path_cache, store, path, fail) ==
    LET err == ObjectCallRaises(store, path, fail)
        inv == invalidate_cache(path_cache, path)
    IN  IF err # ""
        THEN [raised |-> err, cache |-> path_cache, store |-> store, arg |-> path]
        ELSE [raised |-> inv.raised, cache |-> inv.cache, arg |-> inv.arg,
              store  |-> [store EXCEPT ![path.bucket] = @ \ {path.path}]]

\* S3Client.put(f, dest): sniff the local file's type (which raises when
\* the file cannot be read), upload_file, then invalidate_cache
put(path_cache, store, readable, dest, fail) ==
    LET err == ObjectCallRaises(store, dest, fail)
        inv == invalidate_cache(path_cache, dest)
    IN  IF ~readable
        THEN [raised |-> "FileNotFoundError", cache |-> path_cache, store |-> store,
              arg |-> dest]
        ELSE IF err # ""
        THEN [raised |-> err, cache |-> path_cache, store |-> store, arg |-> dest]
        ELSE [raised |-> inv.raised, cache |-> inv.cache, arg |-> inv.arg,
              store  |-> [store EXCEPT ![dest.bucket] = @ \cup {dest.path}]]

\* a listing call on a bucket the backend does not know raises as well
ListCallFails(store, path, path_fragment, fail) ==
    \/ fail
    \/ /\ Truthy(path.bucket)
       /\ ~(~Truthy(path.path) /\ path_fragment)
       /\ path.bucket \notin DOMAIN store

\* S3Client.is_path(path)
is_path_AskBackend(path_cache, store, path, fail) ==
    LET r == ls(path_cache, store, path, FALSE, ListCallFails(store, path, FALSE, fail))
    IN  IF r.raised # "" THEN r ELSE [r EXCEPT !.value = (r.value # {})]

is_path(path_cache, store, path, fail) ==
    IF Truthy(path.bucket) /\ ~Truthy(path.path)
    THEN [raised |-> "", value |-> TRUE, fetched |-> FALSE, cache |-> path_cache]
    ELSE LET r == ls(path_cache, store, path, FALSE,
                     ListCallFails(store, path, FALSE, fail))
         IN  IF r.raised # "" THEN r ELSE [r EXCEPT !.value = (r.value # {})]

(***************************************************************************)
(* cli.py: commands                                                        *)
(***************************************************************************)
\* Cli.cd(path): what the command returns and leaves behind.  target is the
\* normalised path, exists what is_path returned for it.
cd_AssignFirst(current_path, path_cache, store, context, path, links, fail) ==
    LET full_path == normalise_path(current_path, context, path, links)
        r         == is_path(path_cache, store, full_path.value, fail)
    IN  IF full_path.raised # ""
        THEN [raised |-> full_path.raised, value |-> None, target |-> None,
              exists |-> None, fetched |-> FALSE,
              current_path |-> current_path, cache |-> path_cache]
        ELSE [raised |-> r.raised,
              value  |-> IF r.raised = "" THEN r.value ELSE None,
              target |-> full_path.value,
              exists |-> r.value,
              fetched |-> r.fetched,
              current_path |-> full_path.value,
              cache  |-> r.cache]

cd(current_path, path_cache, store, context, path, links, fail) ==
    LET full_path == normalise_path(current_path, context, path, links)
        r         == is_path(path_cache, store, full_path.value, fail)
    IN  IF full_path.raised # ""
        THEN [raised |-> full_path.raised, value |-> None, target |-> None,
              exists |-> None, fetched |-> FALSE,
              current_path |-> current_path, cache |-> path_cache]
        ELSE [raised |-> r.raised,
              value  |-> IF r.raised = "" THEN r.value ELSE None,
              target |-> full_path.value,
              exists |-> r.value,
              fetched |-> r.fetched,
              current_path |-> IF r.raised = "" /\ r.value THEN full_path.value
                               ELSE current_path,
              cache  |-> r.cache]

\* the loop of Cli.rm over the normalised paths, from the i-th on; the
\* backend fails on the call numbered failAt
RECURSIVE RmEach(_, _, _, _, _)
RmEach(path_cache, store, paths, i, failAt) ==
    IF i > Len(paths) THEN [raised |-> "", cache |-> path_cache, store |-> store]
    ELSE LET r == rm(path_cache, store, paths[i], failAt = i)
         IN  IF r.raised # ""
             THEN [raised |-> r.raised, cache |-> r.cache, store |-> r.store]
             ELSE RmEach(r.cache, r.store, paths, i + 1, failAt)

\* Cli.rm normalising each key only when its turn comes
cli_rm_Lazy(current_path, path_cache, store, context, keys, links, failAt) ==
    LET full(i) == normalise_path(current_path, context, keys[i], links)
        bad     == {i \in 1..Len(keys) : full(i).raised # ""}
        first   == CHOOSE i \in bad : \A j \in bad : i <= j
        upto    == IF bad = {} THEN Len(keys) ELSE first - 1
        r       == RmEach(path_cache, store, [i \in 1..upto |-> full(i).value], 1, failAt)
    IN  IF bad = {} \/ r.raised # ""
        THEN [raised |-> r.raised, called |-> upto > 0, cache |-> r.cache,
              store |-> r.store]
        ELSE [raised |-> full(first).raised, called |-> upto > 0, cache |-> r.cache,
              store |-> r.store]

\* Cli.rm(*keys): every key is normalised, then each path is removed in turn
cli_rm(current_path, path_cache, store, context, keys, links, failAt) ==
    LET full(i) == normalise_path(current_path, context, keys[i], links)
        bad     == {i \in 1..Len(keys) : full(i).raised # ""}
        first   == CHOOSE i \in bad : \A j \in bad : i <= j
        r       == RmEach(path_cache, store, [i \in 1..Len(keys) |-> full(i).value],
                          1, failAt)
    IN  IF bad # {}
        THEN [raised |-> full(first).raised, called |-> FALSE, cache |-> path_cache,
              store |-> store]
        ELSE [raised |-> r.raised, called |-> TRUE, cache |-> r.cache,
              store |-> r.store]

(***************************************************************************)
(* completion.py: splitting the buffer                                     *)
(***************************************************************************)
\* the lexer of shlex.split(buf) before the first character: posix mode,
\* whitespace_split, no comment characters
ShlexStart ==
    [state |-> " ", token |-> <<>>, quoted |-> FALSE, escapedstate |-> " ",
     tokens |-> <<>>]

\* the lexer hands out its token and starts the next one
ShlexEmit(st) ==
    [st EXCEPT !.tokens = Append(st.tokens, st.token), !.token = <<>>,
               !.quoted = FALSE, !.escapedstate = " ", !.state = " "]

\* the lexer of shlex.split reads character c
ShlexStep(st, c) ==
    IF st.state = " " THEN
        IF c = " " THEN st
        ELSE IF c = "\\" THEN [st EXCEPT !.escapedstate = "a", !.state = c]
        ELSE IF c \in {"'", "\""} THEN [st EXCEPT !.state = c]
        ELSE [st EXCEPT !.token = <<c>>, !.state = "a"]
    ELSE IF st.state \in {"'", "\""} THEN
        IF c = st.state THEN [st EXCEPT !.quoted = TRUE, !.state = "a"]
        ELSE IF c = "\\" /\ st.state = "\""
        THEN [st EXCEPT !.quoted = TRUE, !.escapedstate = st.state, !.state = c]
        ELSE [st EXCEPT !.quoted = TRUE, !.token = Append(st.token, c)]
    ELSE IF st.state = "\\" THEN
        [st EXCEPT !.token = (IF /\ st.escapedstate \in {"'", "\""}
                                 /\ c # st.state /\ c # st.escapedstate
                              THEN Append(st.token, st.state) ELSE st.token)
                             \o <<c>>,
                   !.state = st.escapedstate]
    ELSE IF c = " " THEN ShlexEmit(st)
    ELSE IF c \in {"'", "\""} THEN [st EXCEPT !.state = c]
    ELSE IF c = "\\" THEN [st EXCEPT !.escapedstate = "a", !.state = c]
    ELSE [st EXCEPT !.token = Append(st.token, c)]

RECURSIVE ShlexLoop(_, _)
ShlexLoop(st, s) == IF s = <<>> THEN st ELSE ShlexLoop(ShlexStep(st, Head(s)), Tail(s))

\* the lexer of shlex.split reaches the end of the input
ShlexFinish(st) ==
    IF st.state \in {"'", "\"", "\\"}
    THEN [raised |-> "ValueError", value |-> None]
    ELSE [raised |-> "",
          value  |-> IF st.state = "a" THEN Append(st.tokens, st.token) ELSE st.tokens]

\* shlex.split(s): the words, or the ValueError raised
shlex_split(s) == ShlexFinish(ShlexLoop(ShlexStart, s))

\* CliCompleter._split_cmd(buf)
split_cmd(buf) ==
    LET asis   == shlex_split(buf)
        double == shlex_split(Append(buf, "\""))
        single == shlex_split(Append(buf, "'"))
    IN  IF buf = <<>> THEN [raised |-> "", value |-> << <<>> >>]
        ELSE IF asis.raised = ""
        THEN [raised |-> "",
              value  |-> IF EndsWith(buf, <<" ">>) THEN Append(asis.value, <<>>)
                         ELSE asis.value]
        ELSE IF double.raised = "" THEN double
        ELSE single

(***************************************************************************)
(* completion.py: candidates                                               *)
(***************************************************************************)
\* Cli.RECOGNISED_COMMANDS
RECOGNISED_COMMANDS ==
    <<<<"b", "o", "o", "k", "m", "a", "r", "k">>,
      <<"c", "a", "t">>,
      <<"c", "d">>,
      <<"c", "l", "e", "a", "r">>,
      <<"e", "x", "i", "t">>,
      <<"f", "i", "l", "e">>,
      <<"g", "e", "t">>,
      <<"h", "e", "a", "d">>,
      <<"h", "e", "l", "p">>,
      <<"l", "l">>,
      <<"l", "s">>,
      <<"p", "r", "o", "m", "p", "t">>,
      <<"p", "u", "t">>,
      <<"p", "w", "d">>,
      <<"r", "e", "f", "r", "e", "s", "h">>,
      <<"r", "m">>>>

\* CliCompleter.EXPECTS_KEY, CliCompleter.EXPECTS_S3_PATH
EXPECTS_KEY == {<<"c", "a", "t">>, <<"f", "i", "l", "e">>, <<"h", "e", "a", "d">>, <<"r", "m">>}
EXPECTS_S3_PATH == {<<"c", "d">>, <<"l", "s">>, <<"l", "l">>} \cup EXPECTS_KEY

\* QUOTES
QUOTES == {"'", "\""}

\* os.path.basename
basename(p) == Drop(p, RFind1(p, "/"))

\* the characters shlex.quote leaves unquoted
SafeChar(c) == isalnum(c) \/ c \in {"_", "@", "%", "+", "=", ":", ",", ".", "/", "-"}

\* shlex.quote(s)
RECURSIVE QuoteInner(_)
QuoteInner(s) ==
    IF s = <<>> THEN <<>>
    ELSE (IF Head(s) = "'" THEN <<"'", "\"", "'", "\"", "'">> ELSE <<Head(s)>>)
         \o QuoteInner(Tail(s))

quote(s) ==
    IF s = <<>> THEN <<"'", "'">>
    ELSE IF \A i \in 1..Len(s) : SafeChar(s[i]) THEN s
    ELSE <<"'">> \o QuoteInner(s) \o <<"'">>

\* S3Bucket.path_string, S3Prefix.path_string, S3Key.path_string
entry_path_string(r) ==
    IF r.kind = "S3Bucket" THEN <<"/">> \o r.name \o <<"/">> ELSE r.name

\* CliCompleter._get_path_start_pos(path, doc), the cursor being at the end
\* of the text: the position, or the IndexError of the subscript
get_path_start_pos(path, text) ==
    LET closing == text # <<>> /\ text[Len(text)] \in QUOTES
        head    == IF closing THEN SubSeq(text, 1, Len(text) - 1) ELSE text
        before  == Len(head) - Len(path)
        opening == EndsWith(head, path) /\ before >= 1 /\ head[before] \in QUOTES
        offset  == 1 - (IF closing THEN 1 ELSE 0) - (IF opening THEN 1 ELSE 0)
    IN  IF EndsWith(head, path) /\ before < 1
        THEN [raised |-> "IndexError", value |-> 0]
        ELSE [raised |-> "", value |-> (RFind1(path, "/") - 1) - Len(path) + offset]

\* nothing to complete
NoCompletion(path_cache) ==
    [raised |-> "", value |-> {}, start |-> 0, completer |-> "none",
     partial |-> None, allow_keys |-> FALSE, path |-> None, frag |-> FALSE,
     called |-> FALSE, fetched |-> FALSE, failed |-> "", listing |-> {},
     cache |-> path_cache]

\* CliCompleter.complete_command(cmd, doc)
complete_command(path_cache, cmd, text) ==
    [NoCompletion(path_cache) EXCEPT
        !.completer = "command", !.partial = cmd, !.start = 0 - Len(text),
        !.value = {RECOGNISED_COMMANDS[i] : i \in {i \in DOMAIN RECOGNISED_COMMANDS :
                                                    StartsWith(RECOGNISED_COMMANDS[i], cmd)}}]

\* the errors a listing call of the backend can end with: a ClientError
\* (the service answered with an error) or another botocore error (the
\* service could not be reached)
BackendErrors == {"ClientError", "EndpointConnectionError"}

\* the path complete_s3_path searches: for a partial ending in "." or ".."
\* inside a bucket, the directory above with that name set as its key
search_path_of(current_path, context, partial, links) ==
    LET dotted == /\ basename(partial) \in {<<".">>, <<".", ".">>}
                  /\ current_path.bucket # None
        above  == normalise_path(current_path, context, dirname(partial), links)
    IN  IF ~dotted THEN normalise_path(current_path, context, partial, links)
        ELSE IF above.raised # "" THEN above
        ELSE [raised |-> "",
              value  |-> [above.value EXCEPT
                            !.path = pathjoin(OrEmpty(above.value.path),
                                              basename(partial))]]

\* complete_s3_path offering every entry of the listing, keys included
\* the path_fragment argument complete_s3_path gives to ls
path_fragment_of_NotSlash(partial) == ~EndsWith(partial, <<"/">>)

path_fragment_of(partial) == ~EndsWith(partial, <<"/">>) /\ partial # <<>>

complete_s3_path_AllEntries(current_path, path_cache, store, context, partial, text, allow_keys, links, err) ==
    LET dotted  == /\ basename(partial) \in {<<".">>, <<".", ".">>}
                   /\ current_path.bucket # None
        special == IF dotted THEN {basename(partial) \o <<"/">>} ELSE {}
        frag    == path_fragment_of(partial)
        start   == get_path_start_pos(partial, text)
        base    == [NoCompletion(path_cache) EXCEPT !.completer = "s3", !.partial = partial,
                                        !.allow_keys = allow_keys]
        Listed(search, r) ==
            LET failed  == IF r.raised = "" THEN ""
                           ELSE IF err # "" THEN err ELSE "ClientError"
                results == IF failed = "" THEN r.value ELSE {}
                done    == [base EXCEPT !.path = search.value, !.frag = frag,
                                        !.called = TRUE, !.fetched = r.fetched,
                                        !.failed = failed, !.listing = results,
                                        !.cache = r.cache]
            IN  IF failed \notin {"", "ClientError"} THEN [done EXCEPT !.raised = failed]
                ELSE IF start.raised # "" THEN [done EXCEPT !.raised = start.raised]
                ELSE [done EXCEPT
                        !.start = start.value,
                        !.value = special \cup
                            {quote(LStrip(entry_path_string(e), "/")) :
                               e \in results}]
        Searched(search) ==
            IF search.raised # "" THEN [base EXCEPT !.raised = search.raised]
            ELSE Once(LAMBDA r : Listed(search, r),
                      ls(path_cache, store, search.value, frag,
                         ListCallFails(store, search.value, frag, err # "")))
    IN  IF partial = <<"~">> THEN [base EXCEPT !.value = {<<"~", "/">>}]
        ELSE Once(Searched, search_path_of(current_path, context, partial, links))

\* CliCompleter.complete_s3_path(partial, doc, allow_keys)
complete_s3_path(current_path, path_cache, store, context, partial, text, allow_keys, links, err) ==
    LET dotted  == /\ basename(partial) \in {<<".">>, <<".", ".">>}
                   /\ current_path.bucket # None
        special == IF dotted THEN {basename(partial) \o <<"/">>} ELSE {}
        frag    == path_fragment_of(partial)
        start   == get_path_start_pos(partial, text)
        base    == [NoCompletion(path_cache) EXCEPT !.completer = "s3", !.partial = partial,
                                        !.allow_keys = allow_keys]
        Listed(search, r) ==
            LET failed  == IF r.raised = "" THEN ""
                           ELSE IF err # "" THEN err ELSE "ClientError"
                results == IF failed = "" THEN r.value ELSE {}
                done    == [base EXCEPT !.path = search.value, !.frag = frag,
                                        !.called = TRUE, !.fetched = r.fetched,
                                        !.failed = failed, !.listing = results,
                                        !.cache = r.cache]
            IN  IF failed \notin {"", "ClientError"} THEN [done EXCEPT !.raised = failed]
                ELSE IF start.raised # "" THEN [done EXCEPT !.raised = start.raised]
                ELSE [done EXCEPT
                        !.start = start.value,
                        !.value = special \cup
                            {quote(LStrip(entry_path_string(e), "/")) :
                               e \in {e \in results : allow_keys \/ ~is_key(e)}}]
        Searched(search) ==
            IF search.raised # "" THEN [base EXCEPT !.raised = search.raised]
            ELSE Once(LAMBDA r : Listed(search, r),
                      ls(path_cache, store, search.value, frag,
                         ListCallFails(store, search.value, frag, err # "")))
    IN  IF partial = <<"~">> THEN [base EXCEPT !.value = {<<"~", "/">>}]
        ELSE Once(Searched, search_path_of(current_path, context, partial, links))

\* the local filesystem: the files of the working directory, the home
\* directory (empty), and what os.path says about a local path
LocalFiles == {<<"f">>, <<"f", "a">>}
HomeDir == <<"/", "h">>
expanduser(p) == IF StartsWith(p, <<"~">>) /\ (Len(p) = 1 \/ p[2] = "/")
                 THEN HomeDir \o Tail(p) ELSE p
isfile(p) == p \in LocalFiles \cup {<<".", "/">> \o f : f \in LocalFiles}
isdir(p) == p \in {<<".">>, <<".", "/">>, HomeDir, HomeDir \o <<"/">>}
listdir(p) == IF p \in {<<".">>, <<".", "/">>} THEN LocalFiles ELSE {}

\* CliCompleter.complete_local_path(partial, doc)
complete_local_path(path_cache, partial, text) ==
    LET start    == get_path_start_pos(partial, text)
        expanded == expanduser(partial)
        parent   == dirname(expanded)
        hits     == IF EndsWith(expanded, <<"/">>) /\ isdir(expanded)
                    THEN listdir(expanded)
                    ELSE IF parent = <<>> \/ isdir(parent)
                    THEN {h \in listdir(IF parent = <<>> THEN <<".">> ELSE parent) :
                            StartsWith(h, basename(expanded))}
                    ELSE {}
        base     == [NoCompletion(path_cache) EXCEPT !.completer = "local",
                                                     !.partial = partial]
    IN  IF start.raised # "" THEN [base EXCEPT !.raised = start.raised]
        ELSE IF (\E i \in 1..Len(partial) : partial[i] = "~")
                /\ ~(\E i \in 1..Len(partial) : partial[i] = "/")
        THEN [base EXCEPT !.start = start.value, !.value = {quote(expanded)}]
        ELSE IF isfile(expanded)
        THEN [base EXCEPT !.start = start.value, !.value = {quote(basename(expanded))}]
        ELSE [base EXCEPT !.start = start.value, !.value = {quote(h) : h \in hits}]

\* CliCompleter.complete_put_get(words, doc, s3_first)
complete_put_get(current_path, path_cache, store, context, wordlist, text, s3_first, links, err) ==
    LET args      == SelectSeq(Tail(wordlist), LAMBDA w : ~StartsWith(w, <<"-">>))
        arg_count == Len(args)
    IN  IF (s3_first /\ arg_count = 1) \/ (~s3_first /\ arg_count = 2)
        THEN complete_s3_path(current_path, path_cache, store, context,
                              args[Len(args)], text, TRUE, links, err)
        ELSE IF (s3_first /\ arg_count = 2) \/ (~s3_first /\ arg_count = 1)
        THEN complete_local_path(path_cache, args[Len(args)], text)
        ELSE NoCompletion(path_cache)

\* CliCompleter.get_completions(document, complete_event), the cursor
\* being at the end of the text
get_completions(current_path, path_cache, store, context, text, links, err) ==
    LET Dispatch(split) ==
            LET cmd == split.value[1]
            IN  IF split.raised # ""
                THEN [NoCompletion(path_cache) EXCEPT !.raised = split.raised]
                ELSE IF Len(split.value) = 1 THEN complete_command(path_cache, cmd, text)
                ELSE IF cmd = <<"p", "u", "t">>
                THEN complete_put_get(current_path, path_cache, store, context,
                                      split.value, text, FALSE, links, err)
                ELSE IF cmd = <<"g", "e", "t">>
                THEN complete_put_get(current_path, path_cache, store, context,
                                      split.value, text, TRUE, links, err)
                ELSE IF cmd \in EXPECTS_S3_PATH
                THEN complete_s3_path(current_path, path_cache, store, context,
                                      split.value[Len(split.value)], text,
                                      cmd \in EXPECTS_KEY, links, err)
                ELSE NoCompletion(path_cache)
    IN  Once(Dispatch, split_cmd(text))

(***************************************************************************)
(* bookmarks.py: BookmarkManager, and the bookmark command of cli.py       *)
(***************************************************************************)
\* the file does not exist; the file cannot be parsed; the file holds the
\* JSON that save() writes for the mapping
AbsentFile == [kind |-> "absent", map |-> <<>>]
UnreadableFile == [kind |-> "unreadable", map |-> <<>>]
JsonFile(map) == [kind |-> "json", map |-> map]

\* BookmarkManager.KEY_REGEX.match(k): one to sixteen letters, digits or
\* underscores; "$" also matches before a final newline
KEY_REGEX(k) ==
    LET body == IF Len(k) > 0 /\ k[Len(k)] = "\n" THEN SubSeq(k, 1, Len(k) - 1) ELSE k
    IN  /\ Len(body) \in 1..16
        /\ \A i \in 1..Len(body) : isalnum(body[i]) \/ body[i] = "_"

\* BookmarkManager.clean_key(k)
clean_key(k) == IF ~KEY_REGEX(k) THEN None ELSE k

\* what the class BookmarkManager defines
BookmarkManagerAttrs ==
    {"KEY_REGEX", "__init__", "bookmarks", "add_bookmark", "remove_bookmark",
     "clean_key", "clean_data", "load", "save"}

\* BookmarkManager.clean_data(data): a Bookmark for every entry of the file.
\* A bookmark is modelled by its path; the time it was created is left out.
clean_data(data) == [k \in DOMAIN data |-> data[k]]

\* BookmarkManager.load(): whether it succeeded, and _bookmarks afterwards
\* (the empty mapping stands for None when it failed)
load(file) ==
    IF file.kind = "absent" THEN [ok |-> TRUE, bookmarks |-> <<>>]
    ELSE IF file.kind = "unreadable" THEN [ok |-> FALSE, bookmarks |-> <<>>]
    ELSE [ok |-> TRUE, bookmarks |-> clean_data(file.map)]

\* the property BookmarkManager.bookmarks: ok is FALSE when it returns None
bookmarks_property(loaded, memory, file) ==
    IF loaded THEN [ok |-> TRUE, bookmarks |-> memory] ELSE load(file)

\* BookmarkManager.save(): writing fails when the file cannot be opened
save(memory, file, writable) ==
    IF writable THEN [raised |-> "", file |-> JsonFile([k \in DOMAIN memory |-> memory[k]])]
    ELSE [raised |-> "OSError", file |-> file]

\* BookmarkManager.add_bookmark(name, path): what it returns, and the manager
\* and the file afterwards
add_bookmark(loaded, memory, file, name, path, writable) ==
    LET b       == bookmarks_property(loaded, memory, file)
        updated == (name :> path_string(path)) @@ b.bookmarks
        s       == save(updated, file, writable)
    IN  IF ~b.ok
        THEN [raised |-> "", value |-> FALSE, loaded |-> FALSE, bookmarks |-> <<>>,
              file |-> file]
        ELSE [raised |-> s.raised,
              value  |-> IF s.raised = "" THEN TRUE ELSE None,
              loaded |-> TRUE, bookmarks |-> updated, file |-> s.file]

\* BookmarkManager.remove_bookmark(k)
remove_bookmark(loaded, memory, file, k, writable) ==
    LET b       == bookmarks_property(loaded, memory, file)
        updated == [n \in DOMAIN b.bookmarks \ {k} |-> b.bookmarks[n]]
        s       == save(updated, file, writable)
    IN  IF ~b.ok
        THEN [raised |-> "TypeError", value |-> None, loaded |-> FALSE,
              bookmarks |-> <<>>, file |-> file]
        ELSE IF k \notin DOMAIN b.bookmarks
        THEN [raised |-> "", value |-> FALSE, loaded |-> TRUE,
              bookmarks |-> b.bookmarks, file |-> file]
        ELSE [raised |-> s.raised,
              value  |-> IF s.raised = "" THEN TRUE ELSE None,
              loaded |-> TRUE, bookmarks |-> updated, file |-> s.file]

\* Cli.add_bookmark(name, path).  The handler begins by calling
\* BookmarkManager.validate_key, which the class does not define, so the
\* attribute lookup raises; the lines after the validation follow.
cli_add_bookmark(current_path, path_cache, store, loaded, memory, file, name, path, links, fail, writable) ==
    LET b         == bookmarks_property(loaded, memory, file)
        full_path == normalise_path(current_path, b.bookmarks, path, links)
        r         == is_path(path_cache, store, full_path.value, fail)
        added     == add_bookmark(loaded, memory, file, name, full_path.value, writable)
        same      == [raised |-> "", err |-> "", cache |-> path_cache,
                      loaded |-> loaded, bookmarks |-> memory, file |-> file]
    IN  IF "validate_key" \notin BookmarkManagerAttrs
        THEN [same EXCEPT !.raised = "AttributeError"]
        ELSE IF ~b.ok
        THEN [same EXCEPT !.raised = "AttributeError"]
        ELSE IF full_path.raised # ""
        THEN [same EXCEPT !.raised = full_path.raised, !.loaded = TRUE,
                          !.bookmarks = b.bookmarks]
        ELSE IF r.raised # ""
        THEN [same EXCEPT !.raised = r.raised, !.cache = r.cache, !.loaded = TRUE,
                          !.bookmarks = b.bookmarks]
        ELSE IF ~r.value
        THEN [same EXCEPT !.err = "not an s3 directory", !.cache = r.cache,
                          !.loaded = TRUE, !.bookmarks = b.bookmarks]
        ELSE [raised |-> added.raised,
              err |-> IF added.raised = "" /\ ~added.value
                      THEN "Failed to add bookmark" ELSE "",
              cache |-> r.cache, loaded |-> added.loaded,
              bookmarks |-> added.bookmarks, file |-> added.file]

(***************************************************************************)
(* State                                                                   *)
(***************************************************************************)
VARIABLES
    current_path,   \* Cli.current_path
    path_cache,     \* S3Client.path_cache: cache key -> listing
    store,          \* the backend: bucket -> the keys it holds
    bookmarks,      \* BookmarkManager.bookmarks: name -> path
    links,          \* the symbolic links of the local filesystem
    last,           \* the last call: what was passed and what came back
    typed,          \* tokenise: the characters consumed so far
    tok,            \* tokenise: the local variables of its loop
    tok_result,     \* tokenise: what it returned or raised
    rendered,       \* render: the context given, what it returned or raised
    buffer,         \* the text of the input line, up to the cursor
    words,          \* _split_cmd: what it returned or raised for buffer
    bookmark_file,  \* the bookmark file: absent, unreadable, or its content
    bookmarks_loaded, \* BookmarkManager._bookmarks is not None
    raw,            \* the path string given as working directory
    out,            \* the last path function applied, and its result
    completion_thread \* the completer's thread: where it is in S3Client.ls

vars == <<current_path, path_cache, store, bookmarks, links, last,
          typed, tok, tok_result, rendered, buffer, words,
          bookmark_file, bookmarks_loaded, raw, out, completion_thread>>

sessionVars == <<current_path, path_cache, store, bookmarks, links, last>>
tokVars == <<typed, tok, tok_result, rendered>>
pathVars == <<raw, out>>
splitVars == <<buffer, words>>
bookmarkVars == <<bookmark_file, bookmarks_loaded>>
threadVars == <<completion_thread>>

\* the bucket of the session and the keys it may hold
Buckets == {<<"b">>}
KeyUniverse == {<<"a", "/", "x", "y">>}

\* no symbolic links; /l -> /t
NoLinks == <<>>
LinkTables == {NoLinks, (<<"l">> :> << <<"t">> >>)}

\* the bookmarks of the session: $m is /b/a
InitialBookmarks == (<<"m">> :> <<"/", "b", "/", "a">>)

\* Nothing called yet.  For a call that invalidates, value holds the cache
\* keys the call removed (the keys its debug log shows as cleared and present).
NoCall ==
    [op |-> "none", arg |-> None, path |-> None, frag |-> FALSE, raised |-> "",
     value |-> None, fetched |-> FALSE, after |-> None, target |-> None]

\* nothing tokenised, nothing parsed
Pending == [raised |-> "<pending>", value |-> None]
NotRendered == [raised |-> "<pending>", value |-> None, context |-> <<>>]
NoOut == [op |-> "none", arg |-> None, prev |-> None, value |-> None]

(***************************************************************************)
(* Inputs                                                                  *)
(***************************************************************************)
\* all sequences of at most n elements of S
SeqsUpTo(S, n) == UNION {[1..k -> S] : k \in 0..n}

\* the segments path strings are made of: names, the dot segments, and the
\* name of the symbolic link
SegNames == {<<"a">>, <<"b">>, <<"l">>, <<".">>, <<".", ".">>}

\* whether the segments, read from the root, never climb above it
RECURSIVE StaysBelowRoot(_, _)
StaysBelowRoot(segs, depth) ==
    IF segs = <<>> THEN TRUE
    ELSE IF Head(segs) = <<".">> THEN StaysBelowRoot(Tail(segs), depth)
    ELSE IF Head(segs) = <<".", ".">>
         THEN depth > 0 /\ StaysBelowRoot(Tail(segs), depth - 1)
    ELSE StaysBelowRoot(Tail(segs), depth + 1)

\* The absolute path strings: an optional "s3://", an optional leading
\* slash, segments, an optional trailing slash.  A string without a leading
\* slash is valid only if its ".." segments stay below the root (with a
\* leading slash normpath clamps them at the root).
PathStrings ==
    {proto \o lead \o Join(segs, "/") \o trail :
        proto \in {<<>>, S3Proto}, lead \in {<<>>, <<"/">>},
        trail \in {<<>>, <<"/">>},
        segs \in {ss \in SeqsUpTo(SegNames, MaxSegs) : StaysBelowRoot(ss, 0)}}
    \cup
    {proto \o <<"/">> \o Join(segs, "/") :
        proto \in {<<>>, S3Proto}, segs \in SeqsUpTo(SegNames, MaxSegs)}

\* the paths whose canonical form is given to normalise_path
KnownPaths ==
    {from_path(Join(segs, "/"), NoLinks) :
        segs \in SeqsUpTo({<<"a">>, <<"b">>}, MaxDepth + 1)}

\* the partial paths given to normalise_path
DotArgs == {<<".">>, <<".", ".">>, <<".", ".", "/", ".", ".">>,
            <<"~">>, <<"~", "/">>, <<"a">>,
            <<"$", "m">>, <<"$", "{", "m">>, <<"$", "q">>}

NormArgs == DotArgs \cup {canonical(P) : P \in KnownPaths}

\* the names a context may define, each with a value that shows its name
CtxNames == {<<"a">>, <<"_">>, <<>>}
ContextOf(names) == [n \in names |-> <<"/">> \o n \o <<"$">>]
Contexts == {ContextOf(names) : names \in SUBSET CtxNames}

\* token lists built by hand: raw strings and references, known or not
Tokens ==
    {RawString(v) : v \in {<<"a">>, <<"\\", "$">>}}
        \cup {Token(n) : n \in CtxNames \cup {<<"a", "a">>}}
TokenLists == SeqsUpTo(Tokens, MaxTokens)

\* the characters typed into the buffer
BufferChars == {"a", " ", "\"", "'", "\\"}

\* the backend of a completion session: a key beside a prefix
CompletionStore == [b \in Buckets |-> {<<"a", "/", "x", "y">>, <<"a", "/", "x", "/", "z">>}]

\* the buffers completion is asked for: a command and the start of a path,
\* and a few others
S3Commands == EXPECTS_S3_PATH \cup {<<"g", "e", "t">>}
Partials ==
    {<<>>,
     <<"/", "b", "/", "a", "/", "x">>}
OtherBuffers ==
    {<<>>,
     <<"c", "d", " ", "/">>,
     <<"c", "d", " ", ".", ".">>,
     <<"c", "d", " ", "$", "q">>,
     <<"c">>,
     <<"p", "w", "d", " ", "x">>,
     <<"c", "d", " ", "~">>,
     <<"c", "d", " ", "$", "{", "m">>,
     <<"c", "d", " ", "a">>,
     <<"r", "m", " ", "/", "b", "/", "a", "/", ".">>,
     <<"p", "u", "t", " ", "f">>,
     <<"p", "u", "t", " ", "-", "r", " ", "f">>,
     <<"p", "u", "t", " ", "f", " ", "-", "r">>,
     <<"p", "u", "t", " ", "f", " ", "/", "b", "/", "a", "/", "x">>,
     <<"p", "u", "t", " ", "f", " ", "/", "b", "/", "a", "/", " ", "x">>,
     <<"g", "e", "t", " ", "/", "b", "/", "a", "/", "x", " ", "f">>,
     <<"c", "d", " ", "\"", "/", "b", "/", "a", "/">>,
     <<"c", "d", " ", "'", "/", "b", "/", "a", "/", "x">>,
     <<"c", "a", "t", " ", "\"", "/", "b", "/", "a", "/", "x", "\"">>,
     <<"c", "d", " ", "\"", "a", "\\">>}
CompletionBuffers ==
    {cmd \o <<" ">> \o partial : cmd \in S3Commands, partial \in Partials}
        \cup OtherBuffers

\* the characters given to tokenise
TokChars == {"$", "{", "}", "\\", "a", "_", "/"}

\* the paths the session passes to the client, and the working directories
\* it may start in
SessionPathStrings ==
    {<<"b">>, <<"b", "/", "a">>, <<"b", "/", "a", "/", "x">>,
     <<"b", "/", "a", "/", "x", "y">>}

SessionPaths == {from_path(x, NoLinks) : x \in SessionPathStrings}

\* the paths invalidate_cache is called with: those of the session, the
\* top-level root, and a bucket root whose key is the empty string, as a walk
\* leaves it in its caller's object
InvalidatePaths ==
    SessionPaths \cup {from_path(<<"/">>, NoLinks),
                       [from_path(<<"b">>, NoLinks) EXCEPT !.path = <<>>]}

WorkingDirs == {<<"/">>, <<"/", "b", "/", "a">>}

\* the arguments given to cd
CdArgs == {<<".", ".">>, <<"a">>, <<"/", "c">>, <<"/", "b", "/", "q">>,
           <<"$", "m">>, <<"$", "{", "m">>, <<"$", "q">>}

\* the keys given to rm, one or two at a time
RmKeys == {<<"x", "y">>, <<"/", "b", "/", "a", "/", "x", "y">>, <<"$", "q">>,
           <<"$", "{", "m">>}
RmArgs == {<<k>> : k \in RmKeys} \cup {<<k, l>> : k \in RmKeys, l \in RmKeys}

(***************************************************************************)
(* The bookmark file                                                       *)
(***************************************************************************)
\* the manager of a session has loaded the bookmarks of the session
\* no completion request is in flight; overtaken is history: "command" when
\* a command has run since the request began, "mutation" when a delete or a
\* write has returned normally since the request fetched its listing
NoRequest == [pc |-> "idle", path |-> None, frag |-> FALSE, res |-> {},
              overtaken |-> "no"]

IdleThread == completion_thread = NoRequest

IdleBookmarks ==
    /\ bookmark_file = JsonFile(InitialBookmarks)
    /\ bookmarks_loaded = TRUE

(***************************************************************************)
(* The session: S3Client and Cli                                           *)
(***************************************************************************)
InitSession ==
    /\ links = NoLinks
    /\ \E w \in WorkingDirs : current_path = from_path(w, links)
    /\ path_cache = <<>>
    /\ store \in [Buckets -> SUBSET KeyUniverse]
    /\ bookmarks = InitialBookmarks
    /\ IdleBookmarks
    /\ IdleThread
    /\ last = NoCall

IdleSession ==
    /\ path_cache = <<>>
    /\ store = [b \in Buckets |-> {}]
    /\ bookmarks = InitialBookmarks
    /\ IdleBookmarks
    /\ IdleThread
    /\ last = NoCall

IdleTok ==
    /\ typed = <<>>
    /\ tok = TokStart
    /\ tok_result = Pending
    /\ rendered = NotRendered

IdlePath ==
    /\ raw = <<>>
    /\ out = NoOut

IdleSplit ==
    /\ buffer = <<>>
    /\ words = Pending

\* S3Client.ls(path, path_fragment), from Cli.ls or from the completer
Ls(path, path_fragment, fail) ==
    LET r == ls(path_cache, store, path, path_fragment,
                ListCallFails(store, path, path_fragment, fail))
    IN  /\ path_cache' = r.cache
        /\ last' = [NoCall EXCEPT !.op = "ls", !.path = path, !.frag = path_fragment,
                                  !.raised = r.raised, !.value = r.value,
                                  !.fetched = r.fetched, !.after = path]
        /\ UNCHANGED <<current_path, store, bookmarks, links>>

\* S3Client.rm(path)
Rm(path, fail) ==
    LET r == rm(path_cache, store, path, fail)
    IN  /\ path_cache' = r.cache
        /\ store' = r.store
        /\ last' = [NoCall EXCEPT !.op = "rm", !.path = path, !.raised = r.raised,
                                  !.fetched = TRUE, !.after = r.arg,
                                  !.value = DOMAIN path_cache \ DOMAIN r.cache]
        /\ UNCHANGED <<current_path, bookmarks, links>>

\* S3Client.put(f, dest)
Put(dest, readable, fail) ==
    LET r == put(path_cache, store, readable, dest, fail)
    IN  /\ path_cache' = r.cache
        /\ store' = r.store
        /\ last' = [NoCall EXCEPT !.op = "put", !.path = dest, !.raised = r.raised,
                                  !.fetched = readable, !.after = r.arg,
                                  !.value = DOMAIN path_cache \ DOMAIN r.cache]
        /\ UNCHANGED <<current_path, bookmarks, links>>

\* S3Client.invalidate_cache(path)
InvalidateCache(path) ==
    LET r == invalidate_cache(path_cache, path)
    IN  /\ path_cache' = r.cache
        /\ last' = [NoCall EXCEPT !.op = "invalidate_cache", !.path = path,
                                  !.raised = r.raised, !.after = r.arg,
                                  !.value = DOMAIN path_cache \ DOMAIN r.cache]
        /\ UNCHANGED <<current_path, store, bookmarks, links>>

\* S3Client.clear_cache(), the refresh command
ClearCache ==
    /\ path_cache' = <<>>
    /\ last' = [NoCall EXCEPT !.op = "clear_cache", !.value = Cardinality(DOMAIN path_cache)]
    /\ UNCHANGED <<current_path, store, bookmarks, links>>

\* Cli.cd(path)
Cd(path, fail) ==
    LET r == cd(current_path, path_cache, store, bookmarks, path, links, fail)
    IN  /\ current_path' = r.current_path
        /\ path_cache' = r.cache
        /\ last' = [NoCall EXCEPT !.op = "cd", !.arg = path, !.raised = r.raised,
                                  !.value = r.value, !.fetched = r.fetched,
                                  !.target = r.target]
        /\ UNCHANGED <<store, bookmarks, links>>

\* Cli.ls(path) without flags: list the normalised path, not as a fragment
CliLs(path, fail) ==
    LET full_path == normalise_path(current_path, bookmarks, path, links)
        r == ls(path_cache, store, full_path.value, FALSE,
                ListCallFails(store, full_path.value, FALSE, fail))
    IN  /\ IF full_path.raised # ""
           THEN /\ path_cache' = path_cache
                /\ last' = [NoCall EXCEPT !.op = "cli_ls", !.arg = path,
                                          !.raised = full_path.raised]
           ELSE /\ path_cache' = r.cache
                /\ last' = [NoCall EXCEPT !.op = "cli_ls", !.arg = path,
                                          !.path = full_path.value,
                                          !.raised = r.raised, !.value = r.value,
                                          !.fetched = r.fetched]
        /\ UNCHANGED <<current_path, store, bookmarks, links>>

\* the S3Client API
\* Cli.rm(*keys)
CliRm(keys, failAt) ==
    LET r == cli_rm(current_path, path_cache, store, bookmarks, keys, links, failAt)
    IN  /\ path_cache' = r.cache
        /\ store' = r.store
        /\ last' = [NoCall EXCEPT !.op = "cli_rm", !.arg = keys, !.raised = r.raised,
                                  !.fetched = r.called]
        /\ UNCHANGED <<current_path, bookmarks, links>>

NextClient ==
    \/ \E path \in SessionPaths, f \in BOOLEAN, fail \in BOOLEAN : Ls(path, f, fail)
    \/ \E path \in SessionPaths, fail \in BOOLEAN : Rm(path, fail)
    \/ \E path \in SessionPaths, readable \in BOOLEAN, fail \in BOOLEAN :
          Put(path, readable, fail)
    \/ \E path \in InvalidatePaths : InvalidateCache(path)
    \/ ClearCache

InitClient ==
    /\ links = NoLinks
    /\ current_path = from_path(<<"/">>, links)
    /\ path_cache = <<>>
    /\ store \in [Buckets -> SUBSET KeyUniverse]
    /\ bookmarks = InitialBookmarks
    /\ IdleBookmarks
    /\ IdleThread
    /\ last = NoCall
    /\ IdleTok /\ IdlePath /\ IdleSplit

SpecClient == InitClient /\ [][NextClient /\ UNCHANGED <<tokVars, pathVars, splitVars, bookmarkVars, threadVars>>]_vars

(***************************************************************************)
(* The completer's thread beside the commands of the prompt loop           *)
(***************************************************************************)
\* Cli.__init__ wraps the completer in ThreadedCompleter: a completion
\* request runs S3Client.ls on a thread of its own, which shares path_cache
\* with the commands of the prompt loop and takes no lock.  The request is
\* modelled in the three steps of ls: the cache lookup, the listing call,
\* and the assignment to the cache.

\* ls, the lookup: a cached listing is returned at once; else the thread
\* goes on to fetch
ThreadLookup(path, path_fragment) ==
    /\ completion_thread.pc = "idle"
    /\ completion_thread' =
          IF CacheKey(path, path_fragment) \in DOMAIN path_cache THEN NoRequest
          ELSE [NoRequest EXCEPT !.pc = "miss", !.path = path, !.frag = path_fragment]
    /\ UNCHANGED sessionVars

\* ls, _fetch(): the listing the backend holds now; a ClientError ends
\* the request
ThreadFetch(fail) ==
    /\ completion_thread.pc = "miss"
    /\ completion_thread' =
          IF ListCallFails(store, completion_thread.path, completion_thread.frag, fail)
          THEN NoRequest
          ELSE [completion_thread EXCEPT
                  !.pc = "fetched",
                  !.res = Fetch(store, completion_thread.path, completion_thread.frag)]
    /\ UNCHANGED sessionVars

\* ls, the end: a listing that is not empty is assigned to the cache
ThreadStore ==
    /\ completion_thread.pc = "fetched"
    /\ path_cache' =
          IF completion_thread.res # {}
          THEN (CacheKey(completion_thread.path, completion_thread.frag)
                    :> completion_thread.res) @@ path_cache
          ELSE path_cache
    /\ completion_thread' = NoRequest
    /\ UNCHANGED <<current_path, store, bookmarks, links, last>>

\* a command of the prompt loop runs while the thread is wherever it is,
\* which is noted for a request in flight
MainThread(mutates) ==
    completion_thread' =
        IF completion_thread.pc = "idle" THEN completion_thread
        ELSE IF mutates /\ last'.raised = "" /\ completion_thread.pc = "fetched"
        THEN [completion_thread EXCEPT !.overtaken = "mutation"]
        ELSE IF completion_thread.overtaken = "no"
        THEN [completion_thread EXCEPT !.overtaken = "command"]
        ELSE completion_thread

\* the paths completion looks up, and the key the commands delete and write
ThreadPaths == {from_path(<<"b", "/", "a">>, NoLinks), from_path(<<"b", "/", "a", "/", "x">>, NoLinks)}
CommandPaths == {from_path(<<"b", "/", "a">>, NoLinks), from_path(<<"b", "/", "a", "/", "x", "y">>, NoLinks)}

InitThreads ==
    /\ links = NoLinks
    /\ current_path = from_path(<<"/", "b", "/", "a">>, links)
    /\ path_cache = <<>>
    /\ store \in [Buckets -> SUBSET KeyUniverse]
    /\ bookmarks = InitialBookmarks
    /\ IdleBookmarks
    /\ IdleThread
    /\ last = NoCall
    /\ IdleTok /\ IdlePath /\ IdleSplit

NextThreads ==
    \/ \E path \in ThreadPaths, f \in BOOLEAN : ThreadLookup(path, f)
    \/ \E fail \in BOOLEAN : ThreadFetch(fail)
    \/ ThreadStore
    \/ \E path \in CommandPaths, f \in BOOLEAN, fail \in BOOLEAN :
          Ls(path, f, fail) /\ MainThread(FALSE)
    \/ \E path \in CommandPaths, fail \in BOOLEAN : Rm(path, fail) /\ MainThread(TRUE)
    \/ \E path \in CommandPaths, readable \in BOOLEAN, fail \in BOOLEAN :
          Put(path, readable, fail) /\ MainThread(TRUE)
    \/ ClearCache /\ MainThread(FALSE)

SpecThreads == InitThreads /\ [][NextThreads /\ UNCHANGED <<tokVars, pathVars, splitVars, bookmarkVars>>]_vars

\* the commands of the command line
NextSession ==
    \/ \E path \in CdArgs, fail \in BOOLEAN : Cd(path, fail)
    \/ \E path \in CdArgs, fail \in BOOLEAN : CliLs(path, fail)
    \/ \E keys \in RmArgs : \E failAt \in 0..Len(keys) : CliRm(keys, failAt)
    \/ ClearCache

Init == InitSession /\ IdleTok /\ IdlePath /\ IdleSplit

Next == NextSession /\ UNCHANGED <<tokVars, pathVars, splitVars, bookmarkVars, threadVars>>

Spec == Init /\ [][Next]_vars

(***************************************************************************)
(* tokenise, character by character                                        *)
(***************************************************************************)
\* the loop of tokenise consumes the next character of its input
TokChar(c) ==
    /\ tok_result.raised = "<pending>"
    /\ Len(typed) < MaxTokLen
    /\ typed' = Append(typed, c)
    /\ tok' = TokStep(tok, c)
    /\ UNCHANGED <<tok_result, rendered>>

\* the input ends: tokenise returns or raises
TokEnd ==
    /\ tok_result.raised = "<pending>"
    /\ tok_result' = TokFinish(tok)
    /\ UNCHANGED <<typed, tok, rendered>>

\* render(tokens, context) on the tokens tokenise returned
Render(context) ==
    /\ tok_result.raised = ""
    /\ rendered.raised = "<pending>"
    /\ rendered' = [raised  |-> render(tok_result.value, context).raised,
                    value   |-> render(tok_result.value, context).value,
                    context |-> context]
    /\ UNCHANGED <<typed, tok, tok_result>>

InitTok ==
    /\ IdleTok /\ IdleSession /\ IdlePath /\ IdleSplit
    /\ links = NoLinks
    /\ current_path = from_path(<<"/">>, links)

NextTok ==
    \/ \E c \in TokChars : TokChar(c)
    \/ TokEnd
    \/ \E context \in Contexts : Render(context)

SpecTok == InitTok /\ [][NextTok /\ UNCHANGED <<sessionVars, pathVars, splitVars, bookmarkVars, threadVars>>]_vars

\* render called on a token list built by hand, as the tests do
InitRender ==
    /\ IdleSession /\ IdlePath /\ IdleSplit
    /\ links = NoLinks
    /\ current_path = from_path(<<"/">>, links)
    /\ typed = <<>>
    /\ tok = TokStart
    /\ tok_result \in {[raised |-> "", value |-> ts] : ts \in TokenLists}
    /\ rendered = NotRendered

NextRender == \E context \in Contexts : Render(context)

SpecRender == InitRender /\ [][NextRender /\ UNCHANGED <<sessionVars, pathVars, splitVars, bookmarkVars, threadVars>>]_vars

(***************************************************************************)
(* Completion requests                                                     *)
(***************************************************************************)
\* CliCompleter.get_completions on the text typed; err is the error of the
\* backend's listing call, if it is made and fails
Complete(text, err) ==
    LET r == get_completions(current_path, path_cache, store, bookmarks, text, links, err)
    IN  /\ path_cache' = r.cache
        /\ last' = [NoCall EXCEPT !.op = "get_completions", !.arg = text,
                                  !.raised = r.raised, !.value = r,
                                  !.fetched = r.fetched]
        /\ UNCHANGED <<current_path, store, bookmarks, links>>

InitComplete ==
    /\ links = NoLinks
    /\ current_path = from_path(<<"/", "b", "/", "a">>, links)
    /\ path_cache = <<>>
    /\ store = CompletionStore
    /\ bookmarks = InitialBookmarks
    /\ IdleBookmarks
    /\ IdleThread
    /\ last = NoCall
    /\ IdleTok /\ IdlePath /\ IdleSplit

NextComplete ==
    \/ \E text \in CompletionBuffers, err \in BackendErrors \cup {""} : Complete(text, err)
    \/ ClearCache

SpecComplete == InitComplete /\ [][NextComplete /\ UNCHANGED <<tokVars, pathVars, splitVars, bookmarkVars, threadVars>>]_vars

(***************************************************************************)
(* Bookmarks: the manager, its file, and the bookmark command              *)
(***************************************************************************)
\* the names and the paths bookmarks are added with
BookmarkNames == {<<"m">>, <<"n">>}
BookmarkPaths == {from_path(<<"/", "b", "/", "a">>, NoLinks), from_path(<<"/", "b">>, NoLinks)}

\* the arguments of "bookmark add": a name the pattern rejects among the
\* names, a directory that does not exist among the paths
CliBookmarkNames == BookmarkNames \cup {<<"m", "-">>}
CliBookmarkPaths == {<<"/", "b", "/", "a">>, <<"/", "b", "/", "q">>}

\* the bookmark files a session may find
BookmarkFiles == {AbsentFile, UnreadableFile, JsonFile(InitialBookmarks)}

\* BookmarkManager(bookmark_file): nothing is loaded yet
NewManager ==
    /\ bookmarks' = <<>>
    /\ bookmarks_loaded' = FALSE
    /\ last' = [NoCall EXCEPT !.op = "new_manager"]
    /\ UNCHANGED <<current_path, path_cache, store, links, bookmark_file>>

\* BookmarkManager.add_bookmark(name, path)
AddBookmark(name, path, writable) ==
    LET r == add_bookmark(bookmarks_loaded, bookmarks, bookmark_file, name, path, writable)
    IN  /\ bookmarks' = r.bookmarks
        /\ bookmarks_loaded' = r.loaded
        /\ bookmark_file' = r.file
        /\ last' = [NoCall EXCEPT !.op = "add_bookmark", !.arg = name, !.path = path,
                                  !.raised = r.raised, !.value = r.value]
        /\ UNCHANGED <<current_path, path_cache, store, links>>

\* BookmarkManager.remove_bookmark(k)
RemoveBookmark(k, writable) ==
    LET r == remove_bookmark(bookmarks_loaded, bookmarks, bookmark_file, k, writable)
    IN  /\ bookmarks' = r.bookmarks
        /\ bookmarks_loaded' = r.loaded
        /\ bookmark_file' = r.file
        /\ last' = [NoCall EXCEPT !.op = "remove_bookmark", !.arg = k,
                                  !.raised = r.raised, !.value = r.value]
        /\ UNCHANGED <<current_path, path_cache, store, links>>

\* the command "bookmark add NAME PATH"
CliAddBookmark(name, path, fail, writable) ==
    LET r == cli_add_bookmark(current_path, path_cache, store, bookmarks_loaded,
                              bookmarks, bookmark_file, name, path, links, fail, writable)
    IN  /\ path_cache' = r.cache
        /\ bookmarks' = r.bookmarks
        /\ bookmarks_loaded' = r.loaded
        /\ bookmark_file' = r.file
        /\ last' = [NoCall EXCEPT !.op = "cli_add_bookmark", !.arg = <<name, path>>,
                                  !.raised = r.raised, !.value = r.err]
        /\ UNCHANGED <<current_path, store, links>>

InitBookmarks ==
    /\ links = NoLinks
    /\ current_path = from_path(<<"/">>, links)
    /\ path_cache = <<>>
    /\ store = CompletionStore
    /\ bookmarks = <<>>
    /\ bookmarks_loaded = FALSE
    /\ bookmark_file \in BookmarkFiles
    /\ IdleThread
    /\ last = NoCall
    /\ IdleTok /\ IdlePath /\ IdleSplit

NextBookmarks ==
    \/ NewManager
    \/ \E name \in BookmarkNames, path \in BookmarkPaths, writable \in BOOLEAN :
          AddBookmark(name, path, writable)
    \/ \E k \in BookmarkNames, writable \in BOOLEAN : RemoveBookmark(k, writable)
    \/ \E name \in CliBookmarkNames, path \in CliBookmarkPaths,
          fail \in BOOLEAN, writable \in BOOLEAN :
          CliAddBookmark(name, path, fail, writable)

SpecBookmarks == InitBookmarks /\ [][NextBookmarks /\ UNCHANGED <<tokVars, pathVars, splitVars, threadVars>>]_vars

(***************************************************************************)
(* _split_cmd, on a buffer typed character by character                    *)
(***************************************************************************)
\* a key is pressed
Type(c) ==
    /\ words.raised = "<pending>"
    /\ Len(buffer) < MaxBufLen
    /\ buffer' = Append(buffer, c)
    /\ UNCHANGED words

\* the completer splits the buffer
SplitCmd ==
    /\ words.raised = "<pending>"
    /\ words' = split_cmd(buffer)
    /\ UNCHANGED buffer

InitSplit ==
    /\ IdleSplit /\ IdleSession /\ IdleTok /\ IdlePath
    /\ links = NoLinks
    /\ current_path = from_path(<<"/">>, links)

NextSplit == (\E c \in BufferChars : Type(c)) \/ SplitCmd

SpecSplit == InitSplit /\ [][NextSplit /\ UNCHANGED <<sessionVars, tokVars, pathVars, bookmarkVars, threadVars>>]_vars

(***************************************************************************)
(* Path parsing and normalisation                                          *)
(***************************************************************************)
\* Cli.__init__: the working directory becomes the current location
InitPath ==
    /\ raw \in PathStrings
    /\ links \in LinkTables
    /\ current_path = from_path(raw, links)
    /\ out = NoOut
    /\ IdleSession /\ IdleTok /\ IdleSplit

\* S3Path.from_path(raw)
FromPath ==
    /\ out.op = "none"
    /\ out' = [op |-> "from_path", arg |-> raw, prev |-> None,
               value |-> from_path(raw, links)]
    /\ UNCHANGED raw

\* S3Path.from_path of the canonical form of the path just parsed
Reparse ==
    /\ out.op = "from_path"
    /\ out' = [op |-> "reparse", arg |-> canonical(out.value), prev |-> out.value,
               value |-> from_path(canonical(out.value), links)]
    /\ UNCHANGED raw

\* Cli.normalise_path(path) at the current location
NormalisePath(path) ==
    /\ out.op = "none"
    /\ out' = [op |-> "normalise_path", arg |-> path, prev |-> None,
               value |-> normalise_path(current_path, bookmarks, path, links)]
    /\ UNCHANGED raw

NextPath == FromPath \/ Reparse \/ (\E path \in NormArgs : NormalisePath(path))

SpecPath == InitPath /\ [][NextPath /\ UNCHANGED <<sessionVars, tokVars, splitVars, bookmarkVars, threadVars>>]_vars

(***************************************************************************)
(* Properties of the listing cache (SpecClient)                            *)
(***************************************************************************)
\* the path itself and its ancestors up to the bucket root, from the
\* segments of its key: bucket/k1/.../ki for i in from..n
PrefixPaths(path, from) ==
    LET segs == Split(path.path, "/")
    IN  {[bucket |-> path.bucket, path |-> Join(SubSeq(segs, 1, i), "/")] :
            i \in from..Len(segs)}

SelfAndAncestors(path) == PrefixPaths(path, 0)

ProperAncestors(path) ==
    LET segs == Split(path.path, "/")
    IN  {[bucket |-> path.bucket, path |-> Join(SubSeq(segs, 1, i), "/")] :
            i \in 0..(Len(segs) - 1)}

\* the step ran invalidate_cache or clear_cache
Invalidating(l) ==
    \/ l.op \in {"invalidate_cache", "clear_cache"}
    \/ l.op \in {"rm", "put"} /\ l.raised = ""

\* C1: Listing cache hit.  Once ls(P, F) has returned a non-empty result the
\* result is stored under (P.canonical, F); an entry stays as it is until a
\* call invalidates or clears; and an ls whose key is present returns the
\* stored list without calling the backend.  An ls whose key is absent calls
\* the backend even when the other fragment mode of the same path is cached.
C1_Step ==
    LET key == CacheKey(last'.path, last'.frag) IN
    /\ last'.op = "ls" =>
         /\ key \in DOMAIN path_cache =>
              /\ last'.raised = ""
              /\ ~last'.fetched
              /\ last'.value = path_cache[key]
         /\ key \notin DOMAIN path_cache => last'.fetched
         /\ (last'.raised = "" /\ last'.value # {}) =>
              /\ key \in DOMAIN path_cache'
              /\ path_cache'[key] = last'.value
    /\ ~Invalidating(last') =>
         \A k \in DOMAIN path_cache :
            k \in DOMAIN path_cache' /\ path_cache'[k] = path_cache[k]

C1_CacheHit == [][C1_Step]_vars

\* an ls was served from the cache while the other fragment mode of the
\* same path was not cached
C1_Witness ==
    /\ last.op = "ls" /\ last.raised = "" /\ ~last.fetched
    /\ CacheKey(last.path, ~last.frag) \notin DOMAIN path_cache

\* C2: Empty listings are never memoized.  Every entry of path_cache is a
\* non-empty listing; an ls that returns an empty result has called the
\* backend and leaves no entry under its key; and the next ls of the same
\* path and mode calls the backend again.
C2_Step ==
    /\ \A k \in DOMAIN path_cache' : path_cache'[k] # {}
    /\ (last'.op = "ls" /\ last'.raised = "" /\ last'.value = {}) =>
         /\ last'.fetched
         /\ CacheKey(last'.path, last'.frag) \notin DOMAIN path_cache'
    /\ (/\ last.op = "ls" /\ last.raised = "" /\ last.value = {}
        /\ last'.op = "ls" /\ last'.path = last.path /\ last'.frag = last.frag) =>
         last'.fetched

C2_NoEmptyEntry == [][C2_Step]_vars

\* an ls returned an empty listing while other listings were cached
C2_Witness ==
    /\ last.op = "ls" /\ last.raised = "" /\ last.value = {}
    /\ path_cache # <<>>

\* C3: After invalidate_cache(path) for a path with a key of n >= 1
\* segments, the cache holds no entry, in either fragment mode, for the path,
\* for any of its ancestor prefixes, or for the bucket root.
C3_InvalidateChain ==
    (last.op = "invalidate_cache" /\ Truthy(last.path.path)) =>
        /\ last.raised = ""
        /\ \A q \in SelfAndAncestors(last.path), f \in BOOLEAN :
              CacheKey(q, f) \notin DOMAIN path_cache

\* invalidate_cache of a path two segments deep removed entries of the
\* parent prefix and of the bucket root
C3_Witness ==
    /\ last.op = "invalidate_cache" /\ last.raised = ""
    /\ Len(Split(last.path.path, "/")) = 2
    /\ \E q \in ProperAncestors(last.path) :
          Truthy(q.path) /\ CacheKey(q, FALSE) \in last.value
    /\ CacheKey([last.path EXCEPT !.path = None], FALSE) \in last.value

\* C4: Every successful mutation invalidates.  After rm or put has returned
\* normally, a following non-fragment ls of the parent prefix, of a higher
\* ancestor or of the bucket root calls the backend; a mutation whose
\* backend call raises has not touched the cache.
C4_Step ==
    /\ (/\ last.op \in {"rm", "put"} /\ last.raised = ""
        /\ last'.op = "ls" /\ ~last'.frag
        /\ \E q \in ProperAncestors(last.path) : PathEq(q, last'.path)) =>
         last'.fetched
    /\ (last'.op \in {"rm", "put"} /\ last'.raised # "") =>
         path_cache' = path_cache

C4_MutationInvalidates == [][C4_Step]_vars

\* rm returned normally and removed the cached listing of the parent prefix
C4_Witness ==
    /\ last.op = "rm" /\ last.raised = ""
    /\ \E q \in ProperAncestors(last.path) :
          Truthy(q.path) /\ CacheKey(q, FALSE) \in last.value

(***************************************************************************)
(* Properties of cd (Spec)                                                 *)
(***************************************************************************)
\* a path with a bucket and no key
IsBucketRoot(p) == Truthy(p.bucket) /\ ~Truthy(p.path)

\* C5: cd changes the current location only on success.  The location
\* becomes the normalised target exactly when is_path returned true for it;
\* when the target does not exist, or the existence check or the
\* normalisation raises, the location is unchanged.
C5_Step ==
    last'.op = "cd" =>
        current_path' = IF last'.raised = "" /\ last'.value
                        THEN last'.target ELSE current_path

C5_CdOnlyOnSuccess == [][C5_Step]_vars

\* the backend raised during the existence check of a target other than the
\* current location
C5_Witness ==
    /\ last.op = "cd" /\ last.raised = "ClientError"
    /\ ~PathEq(last.target, current_path)

\* C6: Bucket-root paths always exist.  For a target with a bucket and no
\* key, cd succeeds without calling the backend and leaves the cache as it
\* was, whether or not the backend knows the bucket.
C6_Step ==
    (/\ last'.op = "cd" /\ last'.raised # "TokeniserException"
     /\ IsBucketRoot(last'.target)) =>
        /\ last'.raised = ""
        /\ last'.value
        /\ ~last'.fetched
        /\ path_cache' = path_cache
        /\ current_path' = last'.target

C6_BucketRootExists == [][C6_Step]_vars

\* cd to the root of a bucket unknown to the backend succeeded, with
\* listings in the cache
C6_Witness ==
    /\ last.op = "cd" /\ last.raised = ""
    /\ IsBucketRoot(last.target)
    /\ last.target.bucket \notin DOMAIN store
    /\ current_path = last.target
    /\ path_cache # <<>>

(***************************************************************************)
(* Properties of path parsing and normalisation (SpecPath)                 *)
(***************************************************************************)
\* C7: normalise is idempotent on canonical paths.  For every current
\* location and every path P, normalise_path of P.canonical returns a path
\* equal to P, whatever the current location is.
C7_CanonicalIdempotent ==
    out.op = "normalise_path" =>
        \A P \in KnownPaths :
            out.arg = canonical(P) =>
                out.value.raised = "" /\ PathEq(out.value.value, P)

\* C8: from_path round-trip.  For every absolute path string P, parsing the
\* canonical form of from_path(P) gives from_path(P) again: the same bucket
\* and the same key.
C8_FromPathRoundTrip ==
    out.op = "reparse" =>
        /\ out.value.bucket = out.prev.bucket
        /\ out.value.path = out.prev.path

\* a string that from_path had to normalise was parsed to a path with a key,
\* and its canonical form was parsed again
C8_Witness ==
    /\ out.op = "reparse"
    /\ Truthy(out.prev.path)
    /\ raw # out.arg
    /\ \E i \in 1..Len(raw) - 1 : raw[i] = "." /\ raw[i + 1] = "."

\* the key without its last segment; None when it had a single segment
ParentKey(key) ==
    LET segs == Split(key, "/")
    IN  IF Len(segs) = 1 THEN None
        ELSE Join(SubSeq(segs, 1, Len(segs) - 1), "/")

\* C9: Relative dot navigation.  At a current location with a non-empty
\* key, normalise_path(".") is the current location, and normalise_path("..")
\* keeps the bucket and removes exactly the last segment of the key (the key
\* is cleared when it had a single segment).
C9_DotNavigation ==
    (out.op = "normalise_path" /\ Truthy(current_path.path)) =>
        /\ out.arg = <<".">> =>
              /\ out.value.raised = ""
              /\ out.value.value = current_path
        /\ out.arg = <<".", ".">> =>
              /\ out.value.raised = ""
              /\ out.value.value.bucket = current_path.bucket
              /\ out.value.value.path = ParentKey(current_path.path)

\* ".." was resolved at a location whose key has at least two segments
C9_Witness ==
    /\ out.op = "normalise_path" /\ out.arg = <<".", ".">>
    /\ Truthy(current_path.path)
    /\ Len(Split(current_path.path, "/")) >= 2
    /\ out.value.raised = ""
    /\ Truthy(out.value.value.path)

(***************************************************************************)
(* Properties of tokenise (SpecTok)                                        *)
(***************************************************************************)
\* the number of backslashes that end s
RECURSIVE TrailingBackslashes(_)
TrailingBackslashes(s) ==
    IF s # <<>> /\ s[Len(s)] = "\\"
    THEN 1 + TrailingBackslashes(SubSeq(s, 1, Len(s) - 1))
    ELSE 0

\* s opens a "${" that is not escaped by a backslash and that no "}" follows
UnclosedBrace(s) ==
    \E i \in 1..(Len(s) - 1) :
        /\ s[i] = "$" /\ s[i + 1] = "{"
        /\ TrailingBackslashes(SubSeq(s, 1, i - 1)) % 2 = 0
        /\ \A j \in (i + 2)..Len(s) : s[j] # "}"

\* C10: tokenise raises a tokeniser error, and returns no tokens, for every
\* input in which a "${" is opened and no "}" follows before the end of the
\* input; the tokens accumulated before it are not returned.
C10_UnclosedBraceRaises ==
    (tok_result.raised # "<pending>" /\ UnclosedBrace(typed)) =>
        /\ tok_result.raised = "TokeniserException"
        /\ tok_result.value = None

\* tokenise raised on an unclosed "${" after it had accumulated tokens
C10_Witness ==
    /\ tok_result.raised = "TokeniserException"
    /\ UnclosedBrace(typed)
    /\ tok.acc # <<>>

(***************************************************************************)
(* Properties of render (SpecRender, SpecTok)                              *)
(***************************************************************************)
\* tokens holds a reference to a name that context does not define
MissingName(tokens, context) ==
    \E i \in 1..Len(tokens) :
        tokens[i].kind = "Token" /\ tokens[i].text \notin DOMAIN context

\* the values of the raw strings and of the names of tokens, in order
RECURSIVE Concatenation(_, _)
Concatenation(tokens, context) ==
    IF tokens = <<>> THEN <<>>
    ELSE (IF Head(tokens).kind = "RawString" THEN Head(tokens).text
          ELSE context[Head(tokens).text])
         \o Concatenation(Tail(tokens), context)

\* C11: render raises a tokeniser error, and returns neither a partial
\* string nor a default, whenever the token list refers to a name that is
\* not a key of the context; when every name is a key, it returns the
\* concatenation, in order, of the raw strings and of the values of the names.
C11_RenderMissingFails ==
    (rendered.raised # "<pending>") =>
        IF MissingName(tok_result.value, rendered.context)
        THEN rendered.raised = "TokeniserException" /\ rendered.value = None
        ELSE /\ rendered.raised = ""
             /\ rendered.value = Concatenation(tok_result.value, rendered.context)

\* render raised on an unknown name that follows a raw string and a known name
C11_Witness ==
    /\ rendered.raised = "TokeniserException"
    /\ Len(tok_result.value) = 3
    /\ tok_result.value[1].kind = "RawString"
    /\ tok_result.value[2].kind = "Token"
    /\ tok_result.value[2].text \in DOMAIN rendered.context
    /\ tok_result.value[3].kind = "Token"
    /\ tok_result.value[3].text \notin DOMAIN rendered.context

\* the longest run of letters, digits and underscores that starts s
RECURSIVE NameRun(_)
NameRun(s) ==
    IF s # <<>> /\ (isalnum(Head(s)) \/ Head(s) = "_")
    THEN <<Head(s)>> \o NameRun(Tail(s))
    ELSE <<>>

\* x read from left to right as the claim reads it: "\$" is a literal "$",
\* "$name" and "${name}" refer to name, anything else is itself.  ok is
\* FALSE when some "$" is none of these.
RECURSIVE Reading(_)
Reading(x) ==
    IF x = <<>> THEN [ok |-> TRUE, parts |-> <<>>]
    ELSE IF Head(x) = "\\" /\ Len(x) >= 2 THEN
        LET rest == Reading(Drop(x, 2))
        IN  [ok    |-> rest.ok,
             parts |-> <<RawString(IF x[2] = "$" THEN <<"$">> ELSE <<"\\", x[2]>>)>>
                       \o rest.parts]
    ELSE IF Head(x) = "$" THEN
        LET braced == Len(x) >= 2 /\ x[2] = "{"
            name   == NameRun(Drop(x, IF braced THEN 2 ELSE 1))
            used   == Len(name) + (IF braced THEN 3 ELSE 1)
            closed == ~braced \/ (Len(x) >= used /\ x[used] = "}")
            rest   == Reading(Drop(x, used))
        IN  IF name = <<>> \/ ~closed THEN [ok |-> FALSE, parts |-> <<>>]
            ELSE [ok |-> rest.ok, parts |-> <<Token(name)>> \o rest.parts]
    ELSE LET rest == Reading(Tail(x))
         IN  [ok |-> rest.ok, parts |-> <<RawString(<<Head(x)>>)>> \o rest.parts]

\* C12: for every input in which each "$" belongs to "\$", "$name" or
\* "${name}", tokenise returns, and for every context that defines all the
\* names referred to, render of its tokens is the input with each reference
\* replaced by the value of its name, each "\$" by "$", and every other
\* character unchanged and in order.
C12_TokeniseRenderRoundTrip ==
    LET reading == Reading(typed)
    IN  /\ (tok_result.raised # "<pending>" /\ reading.ok) => tok_result.raised = ""
        /\ (/\ rendered.raised # "<pending>"
            /\ reading.ok
            /\ ~MissingName(reading.parts, rendered.context))
              => /\ rendered.raised = ""
                 /\ rendered.value = Concatenation(reading.parts, rendered.context)

(***************************************************************************)
(* Properties of the commands (Spec)                                       *)
(***************************************************************************)
\* arg refers to a variable that bookmarks does not define, or opens a "${"
\* that it does not close
BadReference(arg, context) ==
    \/ UnclosedBrace(arg)
    \/ Reading(arg).ok /\ MissingName(Reading(arg).parts, context)

\* C13: when an argument of cd, ls or rm refers to a variable that is not a
\* bookmark, or holds an unclosed "${", the command raises the tokeniser
\* error, makes no backend call and leaves the current location, the cache
\* and the backend as they were.
C13_Step ==
    (\/ last'.op \in {"cd", "cli_ls"} /\ BadReference(last'.arg, bookmarks)
     \/ /\ last'.op = "cli_rm"
        /\ \E i \in 1..Len(last'.arg) : BadReference(last'.arg[i], bookmarks))
      => /\ last'.raised = "TokeniserException"
         /\ ~last'.fetched
         /\ current_path' = current_path
         /\ path_cache' = path_cache
         /\ store' = store

C13_TokeniserErrorsPropagate == [][C13_Step]_vars

\* rm of a key that exists and of an unknown variable raised, with the key
\* still there and a listing still cached
C13_Witness ==
    /\ last.op = "cli_rm" /\ last.raised = "TokeniserException"
    /\ Len(last.arg) = 2
    /\ ~BadReference(last.arg[1], bookmarks)
    /\ last.arg[2] = <<"$", "q">>
    /\ store[<<"b">>] # {}
    /\ path_cache # <<>>

(***************************************************************************)
(* Properties of _split_cmd (SpecSplit)                                    *)
(***************************************************************************)
\* the first of the three parses of buf that succeeds, if any: buf as it
\* is, with a closing double quote, with a closing single quote
Parses(buf) == <<shlex_split(buf), shlex_split(Append(buf, "\"")),
                 shlex_split(Append(buf, "'"))>>

\* buf ends inside a quoted string that is not closed
EndsInsideQuotes(buf) ==
    LET st == ShlexLoop(ShlexStart, buf)
    IN  \/ st.state \in {"'", "\""}
        \/ st.state = "\\" /\ st.escapedstate \in {"'", "\""}

\* C16: _split_cmd returns [""] for the empty buffer; otherwise it returns
\* the words of the first parse that succeeds among the buffer as it is
\* (with the empty word that stands for the argument about to be typed when
\* the buffer ends with a space), the buffer with a closing double quote,
\* and the buffer with a closing single quote, and raises only when all
\* three fail; a buffer that ends inside an unclosed quoted string does not
\* raise and its last word is the text quoted so far.
C16_QuoteRepair ==
    words.raised # "<pending>" =>
        LET parses == Parses(buffer)
            ok     == {i \in 1..3 : parses[i].raised = ""}
            first  == CHOOSE i \in ok : \A j \in ok : i <= j
        IN  /\ buffer = <<>> => words = [raised |-> "", value |-> << <<>> >>]
            /\ (buffer # <<>> /\ ok = {}) => words.raised = "ValueError"
            /\ (buffer # <<>> /\ ok # {}) =>
                  /\ words.raised = ""
                  /\ words.value = IF first = 1 /\ buffer[Len(buffer)] = " "
                                   THEN Append(parses[1].value, <<>>)
                                   ELSE parses[first].value
            /\ EndsInsideQuotes(buffer) =>
                  /\ words.raised = ""
                  /\ words.value[Len(words.value)] = ShlexLoop(ShlexStart, buffer).token

(***************************************************************************)
(* Properties of completion (SpecComplete)                                 *)
(***************************************************************************)
\* C14: whenever the listing call that complete_s3_path makes fails, with
\* whatever error, get_completions raises nothing and returns no candidate.
C14_Step ==
    (/\ last'.op = "get_completions"
     /\ last'.value.completer = "s3"
     /\ last'.value.failed # "")
      => /\ last'.raised = ""
         /\ last'.value.value = {}

C14_CompletionDegrades == [][C14_Step]_vars

\* the candidates complete_s3_path derives from the entries of a listing
CandidatesOf(entries) == {quote(LStrip(entry_path_string(e), "/")) : e \in entries}

\* the commands that take a place to go to, and those that take a key
NavigationCommands == {<<"c", "d">>, <<"l", "s">>, <<"l", "l">>}
KeyCommands ==
    {<<"c", "a", "t">>, <<"f", "i", "l", "e">>, <<"h", "e", "a", "d">>, <<"r", "m">>,
     <<"g", "e", "t">>, <<"p", "u", "t">>}

\* C15: for cd, ls and ll no candidate comes from a Key entry of the
\* listing, whatever it holds, while the Bucket and Prefix entries are
\* offered; for cat, file, head, rm and the remote argument of get and put
\* the Key entries are offered together with the Bucket and Prefix entries.
C15_Step ==
    (/\ last'.op = "get_completions" /\ last'.raised = ""
     /\ last'.value.completer = "s3" /\ last'.value.called)
      => LET cmd     == split_cmd(last'.arg).value[1]
             listing == last'.value.listing
             keys    == {e \in listing : is_key(e)}
         IN  /\ cmd \in NavigationCommands \cup KeyCommands
             /\ cmd \in NavigationCommands =>
                   /\ last'.value.value \cap CandidatesOf(keys) = {}
                   /\ CandidatesOf(listing \ keys) \subseteq last'.value.value
             /\ cmd \in KeyCommands =>
                   CandidatesOf(listing) \subseteq last'.value.value

C15_NavigableOnly == [][C15_Step]_vars

\* cd was completed from a listing that holds a key beside a prefix
C15_Witness ==
    /\ last.op = "get_completions" /\ last.raised = ""
    /\ last.value.completer = "s3"
    /\ split_cmd(last.arg).value[1] = <<"c", "d">>
    /\ \E e \in last.value.listing : is_key(e)
    /\ \E e \in last.value.listing : ~is_key(e)
    /\ last.value.value # {}

(***************************************************************************)
(* C17: bookmarks are persisted eagerly                                    *)
(***************************************************************************)
\* what a second BookmarkManager sees after loading the file
SecondManager(file) == load(file)

\* the bookmarks the manager answers with, loading them if it has not yet
Visible(loaded, memory, file) == bookmarks_property(loaded, memory, file)

\* the name is not among the manager's bookmarks; a manager whose file cannot
\* be read has none
Absent(k, loaded, memory, file) ==
    LET b == Visible(loaded, memory, file)
    IN  ~b.ok \/ k \notin DOMAIN b.bookmarks

\* C17: after every add_bookmark or remove_bookmark that returns True the
\* bookmark file holds exactly the manager's name -> path mapping, so a second
\* manager loading the file sees the same bookmarks; remove_bookmark of an
\* absent name returns False and changes neither the bookmarks in memory nor
\* the file.
C17_Step ==
    /\ (/\ last'.op \in {"add_bookmark", "remove_bookmark"}
        /\ last'.raised = ""
        /\ last'.value)
         => /\ bookmarks_loaded'
            /\ bookmark_file' = JsonFile(bookmarks')
            /\ SecondManager(bookmark_file') = [ok |-> TRUE, bookmarks |-> bookmarks']
    /\ (/\ last'.op = "remove_bookmark"
        /\ Absent(last'.arg, bookmarks_loaded, bookmarks, bookmark_file))
         => /\ last'.raised = ""
            /\ last'.value = FALSE
            /\ bookmark_file' = bookmark_file
            /\ Visible(bookmarks_loaded', bookmarks', bookmark_file')
                 = Visible(bookmarks_loaded, bookmarks, bookmark_file)

C17_EagerPersistence == [][C17_Step]_vars

(***************************************************************************)
(* C18: bookmark add NAME PATH                                             *)
(***************************************************************************)
\* PATH, normalised against the current location and the bookmarks
Normalised(path) ==
    normalise_path(current_path,
                   Visible(bookmarks_loaded, bookmarks, bookmark_file).bookmarks,
                   path, links)

\* PATH is an existing S3 directory
ExistingDirectory(path) ==
    /\ Normalised(path).raised = ""
    /\ is_path(path_cache, store, Normalised(path).value, FALSE).value

\* C18: "bookmark add NAME PATH" adds a bookmark called NAME pointing at the
\* normalised PATH whenever NAME matches ^[a-zA-Z0-9_]{1,16}$ and PATH is an
\* existing S3 directory; when NAME does not match, it reports an invalid-name
\* error and adds nothing.
\* (The first half is asked of a session whose bookmark file can be read and
\* written.)
C18_Step ==
    last'.op = "cli_add_bookmark"
      => LET name == last'.arg[1]
             path == last'.arg[2]
             seen == Visible(bookmarks_loaded', bookmarks', bookmark_file')
         IN  /\ (/\ KEY_REGEX(name)
                 /\ ExistingDirectory(path)
                 /\ Visible(bookmarks_loaded, bookmarks, bookmark_file).ok
                 /\ last'.raised # "OSError")
                  => /\ last'.raised = ""
                     /\ seen.ok
                     /\ name \in DOMAIN seen.bookmarks
                     /\ seen.bookmarks[name] = path_string(Normalised(path).value)
             /\ ~KEY_REGEX(name)
                  => /\ last'.raised = ""
                     /\ last'.value = "invalid name"
                     /\ seen = Visible(bookmarks_loaded, bookmarks, bookmark_file)

C18_BookmarkAdd == [][C18_Step]_vars

(***************************************************************************)
(* C19: the invalidation walk leaves the caller's path alone               *)
(***************************************************************************)
\* C19: after invalidate_cache(path), and so after rm(path) and
\* put(file, path), the S3Path object the caller passed has the same bucket,
\* key and canonical string as before the call.
C19_Step ==
    last'.op \in {"invalidate_cache", "rm", "put"}
      => /\ last'.after.bucket = last'.path.bucket
         /\ last'.after.path = last'.path.path
         /\ canonical(last'.after) = canonical(last'.path)

C19_WalkOnPrivateCopy == [][C19_Step]_vars

(***************************************************************************)
(* C20: invalidate_cache is total                                          *)
(***************************************************************************)
\* the walk from key p ends, within one step per character of p, at a key
\* that is its own parent
WalkEndsAtFixedPoint(p) ==
    LET walk == WalkKeys(p)
    IN  /\ Len(walk) <= Len(p) + 1
        /\ dirname(walk[Len(walk)]) = walk[Len(walk)]

\* C20: for every S3Path, a bucket root (key None or empty) and the top-level
\* root (no bucket) included, the ancestor walk of invalidate_cache ends after
\* finitely many steps at the fixed point of taking the parent, and the call
\* returns normally.
C20_Step ==
    last'.op = "invalidate_cache"
      => /\ last'.raised = ""
         /\ WalkEndsAtFixedPoint(last'.path.path)

C20_InvalidateTotal == [][C20_Step]_vars

(***************************************************************************)
(* C23: backslash escapes outside a variable                               *)
(***************************************************************************)
\* the loop has just read character c after a pending backslash
ReadsEscaped(c) ==
    /\ typed' = Append(typed, c)
    /\ tok.is_escaped /\ ~tok.is_var

\* C23: outside a variable, for every character x the input \x contributes
\* the single character x, without the backslash, to the RawString, and \$
\* contributes a "$" without opening a variable.
C23_Step ==
    \A c \in TokChars :
        ReadsEscaped(c) => /\ tok'.curr = Append(tok.curr, c)
                           /\ ~tok'.is_var /\ ~tok'.is_escaped
                           /\ tok'.acc = tok.acc

C23_EscapeConsumed == [][C23_Step]_vars

\* C23 as the code has it: \$ contributes "$" alone and opens no variable;
\* before any other character x the backslash is kept, and \x contributes
\* the two characters \x.
C23_AmendedStep ==
    \A c \in TokChars :
        ReadsEscaped(c) => /\ tok'.curr = tok.curr \o (IF c = "$" THEN <<c>> ELSE <<"\\", c>>)
                           /\ ~tok'.is_var /\ ~tok'.is_escaped
                           /\ tok'.acc = tok.acc

C23_EscapeKeptUnlessDollar == [][C23_AmendedStep]_vars

\* \a was read and \$ after it: the raw string in progress holds the
\* backslash of the first and not that of the second
C23_Witness ==
    /\ typed = <<"\\", "a", "\\", "$">>
    /\ tok.curr = <<"\\", "a", "$">>
    /\ ~tok.is_var

(***************************************************************************)
(* C24: braced variables are verbatim                                      *)
(***************************************************************************)
\* the input "${" + s + "}"
Braced(s) == <<"$", "{">> \o s \o <<"}">>

\* C24: after "${" every character up to the first "}" becomes part of the
\* variable name unchanged, "$", "\", "{" included: tokenise("${" + s + "}")
\* is exactly [Token(s)] for every s that holds no "}".
C24_BracedVerbatim ==
    \A s \in SeqsUpTo(TokChars \ {"}"}, MaxTokLen - 3) :
        (typed = Braced(s) /\ tok_result.raised # "<pending>")
            => tok_result = [raised |-> "", value |-> <<Token(s)>>]

(***************************************************************************)
(* C30: variable references with an empty name                             *)
(***************************************************************************)
\* the input holds the explicit braced form of the empty name
HoldsEmptyBraces(s) == \E i \in 1..Len(s) - 2 : SubSeq(s, i, i + 2) = <<"$", "{", "}">>

\* C30: tokenise emits a Token with an empty name only for the explicit
\* form "${}": a "$" followed neither by a letter, a digit or an underscore
\* nor by "{" produces no variable token, at the end of the input or before
\* another character such as "/" or a second "$".
C30_EmptyNameOnlyBraced ==
    (tok_result.raised = ""
       /\ \E i \in 1..Len(tok_result.value) : tok_result.value[i] = Token(<<>>))
        => HoldsEmptyBraces(typed)

(***************************************************************************)
(* C22: ".." at and above the bucket root                                  *)
(***************************************************************************)
\* the partial made of n ".." segments
DotDots(n) == Join([i \in 1..n |-> <<".", ".">>], "/")

\* the number of ".." segments of a partial made only of them, else 0
DotDotCount(arg) ==
    IF \E n \in 1..MaxSegs + 1 : arg = DotDots(n) THEN (Len(arg) + 1) \div 3 ELSE 0

\* the segments of the key of a location
KeySegs(p) == IF Truthy(p.path) THEN Split(p.path, "/") ELSE <<>>

\* normalise_path resolved a partial made only of ".." inside a bucket
ResolvedDotDots ==
    /\ out.op = "normalise_path"
    /\ DotDotCount(out.arg) > 0
    /\ Truthy(current_path.bucket)

\* C22: resolving ".." never escapes above the bucket root.  At every
\* location with bucket B, normalise_path of a partial made only of ".."
\* segments returns a path whose bucket is still B, and once the segments
\* of the key are exhausted the result is the bucket root of B.
C22_DotDotStaysInBucket ==
    ResolvedDotDots =>
        /\ out.value.raised = ""
        /\ out.value.value.bucket = current_path.bucket
        /\ DotDotCount(out.arg) >= Len(KeySegs(current_path))
              => out.value.value.path = None

\* C22 as the code has it: each ".." removes one segment of the key, and
\* the one after the last segment of the key removes the bucket.  With n
\* ".." segments at a key of k segments the result is the first k - n
\* segments in bucket B when n < k, the bucket root of B when n = k, and
\* the top-level root (no bucket, no key) when n > k.
C22_DotDotClimbsToTopLevel ==
    ResolvedDotDots =>
        LET n    == DotDotCount(out.arg)
            segs == KeySegs(current_path)
            k    == Len(segs)
        IN  /\ out.value.raised = ""
            /\ out.value.value =
                  IF n < k
                    THEN [bucket |-> current_path.bucket,
                          path   |-> Join(SubSeq(segs, 1, k - n), "/")]
                  ELSE IF n = k
                    THEN [bucket |-> current_path.bucket, path |-> None]
                  ELSE [bucket |-> None, path |-> None]

\* "../.." was resolved at a key of one segment and left the bucket
C22_Witness ==
    /\ ResolvedDotDots
    /\ DotDotCount(out.arg) = 2
    /\ Len(KeySegs(current_path)) = 1
    /\ out.value.value = [bucket |-> None, path |-> None]

(***************************************************************************)
(* C26: the fragment mode of remote completion                             *)
(***************************************************************************)
\* complete_s3_path made its listing call in this step
ListedForCompletion ==
    /\ last'.op = "get_completions"
    /\ last'.value.completer = "s3"
    /\ last'.value.called

\* C26: remote completion uses fragment mode exactly when the partial does
\* not end with "/": complete_s3_path calls ls with path_fragment = True for
\* every partial that does not end in "/", the empty partial included, and
\* with path_fragment = False only for partials that end in "/".
C26_Step ==
    ListedForCompletion =>
        (last'.value.frag <=> ~EndsWith(last'.value.partial, <<"/">>))

C26_FragmentUnlessSlash == [][C26_Step]_vars

\* C26 as the code has it: the listing call is made with path_fragment =
\* True exactly when the partial is not empty and does not end in "/"; the
\* empty partial is listed as a directory, like a partial ending in "/".
C26_AmendedStep ==
    ListedForCompletion =>
        (last'.value.frag <=> /\ last'.value.partial # <<>>
                              /\ ~EndsWith(last'.value.partial, <<"/">>))

C26_FragmentUnlessSlashOrEmpty == [][C26_AmendedStep]_vars

\* the empty partial of "cd " was listed as a directory
C26_Witness ==
    /\ last.op = "get_completions" /\ last.arg = <<"c", "d", " ">>
    /\ last.value.completer = "s3" /\ last.value.called
    /\ last.value.partial = <<>>
    /\ ~last.value.frag
    /\ last.value.path = current_path

(***************************************************************************)
(* C25: the text typed never makes a completion request raise              *)
(***************************************************************************)
\* C25: a completion request never raises because of the text typed.  For
\* every buffer that split_cmd can split, and with no failure of the
\* backend, get_completions returns a set of candidates (possibly empty),
\* also when the path in progress refers to an unknown variable ("$name")
\* or holds an unclosed "${".
C25_Step ==
    (/\ last'.op = "get_completions"
     /\ split_cmd(last'.arg).raised = ""
     /\ last'.value.failed = "")
      => last'.raised = ""

C25_TypingNeverRaises == [][C25_Step]_vars

(***************************************************************************)
(* C27: completion of the transfer commands                                *)
(***************************************************************************)
\* whether the word is a flag
IsFlag(w) == StartsWith(w, <<"-">>)

\* C27: completion of put and get completes the last token of the buffer,
\* the one in progress, classified by its position among the tokens after
\* the command that are not flags: for put the first is a local path and
\* the second a remote path, for get the first is remote and the second
\* local.  Flags are not counted and are never themselves handed to a path
\* completer; with no or more than two such tokens no candidate is returned.
C27_Step ==
    (/\ last'.op = "get_completions"
     /\ split_cmd(last'.arg).raised = ""
     /\ Len(split_cmd(last'.arg).value) > 1
     /\ split_cmd(last'.arg).value[1] \in {<<"p", "u", "t">>, <<"g", "e", "t">>})
      => LET wordlist == split_cmd(last'.arg).value
             lastword == wordlist[Len(wordlist)]
             position == Len(SelectSeq(Tail(wordlist), LAMBDA w : ~IsFlag(w)))
             is_put   == wordlist[1] = <<"p", "u", "t">>
         IN  IF IsFlag(lastword) \/ position \notin {1, 2}
             THEN /\ last'.value.completer = "none"
                  /\ last'.value.value = {}
             ELSE /\ last'.value.partial = lastword
                  /\ last'.value.completer =
                        IF is_put <=> position = 1 THEN "local" ELSE "s3"

C27_TransferCompletion == [][C27_Step]_vars

(***************************************************************************)
(* C28: no stale listing survives a delete                                 *)
(***************************************************************************)
\* the keys, with their bucket, that the listing cached under cache_key
\* holds: the names of its S3Key entries behind the directory part of the
\* prefix that was searched
ListedKeys(cache_key, entries) ==
    LET path        == from_path(cache_key[1], NoLinks)
        search_path == IF ~cache_key[2]
                       THEN (IF Truthy(path.path) THEN path.path \o <<"/">> ELSE <<>>)
                       ELSE OrEmpty(path.path)
        search_len  == RFind1(search_path, "/")
    IN  {[bucket |-> path.bucket, path |-> SubSeq(search_path, 1, search_len) \o e.name] :
            e \in {e \in entries : is_key(e)}}

\* C28: after rm(K) returns normally, no entry that remains in path_cache,
\* in either fragment mode, still lists the deleted key K; this includes the
\* fragment-mode entries cached for partial names in the parent prefix of K.
C28_Step ==
    (last'.op = "rm" /\ last'.raised = "") =>
        \A cache_key \in DOMAIN path_cache' :
            [bucket |-> last'.path.bucket, path |-> last'.path.path]
                \notin ListedKeys(cache_key, path_cache'[cache_key])

C28_NoStaleListing == [][C28_Step]_vars

(***************************************************************************)
(* C29: path parsing does not depend on the local filesystem               *)
(***************************************************************************)
\* C29: path parsing is a function of its input alone.  The bucket and the
\* key of from_path(s), and of S3Path(bucket, key), are the same whatever
\* symbolic links the local filesystem holds: a second run with the same
\* input on another filesystem gives an equal path.
C29_ParsingIgnoresFilesystem ==
    out.op = "from_path" =>
        \A other \in LinkTables :
            /\ from_path(out.arg, other) = out.value
            /\ out.value.bucket # None =>
                  S3Path(out.value.bucket, out.value.path, other) = out.value

(***************************************************************************)
(* C21: cache access is serialised                                         *)
(***************************************************************************)
\* C21: completion lookups and the execution of commands (ls, rm and put
\* with their invalidation, refresh) never run concurrently: no command
\* runs while a completion request is in flight, and so a listing that a
\* completion request fetched before a delete or a write is never stored
\* into the cache after the invalidation of that delete or write has run.
C21_Step ==
    /\ completion_thread'.overtaken = "no"
    /\ (/\ completion_thread.pc = "fetched" /\ completion_thread'.pc = "idle"
        /\ completion_thread.res # {})
          => completion_thread.overtaken # "mutation"

C21_CacheAccessSerialised == [][C21_Step]_vars

====
